---------------------------- MODULE Spec2Model ----------------------------
(***************************************************************************)
(* State-machine model of the compliance rules engine                      *)
(* (compliance-automation/engine/rules_engine.py) and of the canonical     *)
(* schema helpers it calls (compliance-automation/schemas/                 *)
(* canonical_schema.py).                                                   *)
(*                                                                         *)
(* Conventions                                                             *)
(*  - Optional[T]: None is <<>>, a present value v is <<v>>.               *)
(*  - date: an integer day number.                                         *)
(*  - Decimal: an integer count of a fixed unit that is named at each      *)
(*    field; the arithmetic of the checks is exact on these.               *)
(*  - str that the engine normalises or compares approximately            *)
(*    (material and product names): a sequence of one-character strings.   *)
(*  - uuid4(): the next value of the counter nextId.                       *)
(*  - checked_at of a finding (datetime.utcnow) is read by no code of the  *)
(*    engine and is not carried.                                           *)
(***************************************************************************)
EXTENDS Integers, Sequences, FiniteSets, TLC

\* ------------------------------------------------------------------ bounds

\* Number of evaluate_project calls made on one engine instance.
MaxEvals == 2
\* Number of times the wall-clock date advances during a behaviour.
MaxTicks == 1
\* Longest catalogue document drawn for rule loading.
MaxDocLen == 2
\* Longest findings list drawn for the summary computation on its own.
MaxFindings == 2

\* ----------------------------------------------------------------- helpers

None == <<>>
Some(v) == <<v>>
IsNone(o) == o = <<>>
\* Python truthiness of an Optional[Decimal] / Optional[int]: None and 0 are falsy.
TruthyNum(o) == o # <<>> /\ o[1] # 0
\* Python truthiness of an Optional[str] / Optional[UUID]: None and "" are falsy.
TruthyStr(o) == o # <<>> /\ o[1] # ""

Range(s) == {s[i] : i \in DOMAIN s}

RECURSIVE SumSeq(_)
SumSeq(s) == IF s = <<>> THEN 0 ELSE Head(s) + SumSeq(Tail(s))

RECURSIVE Concat(_)
\* list.extend over a list of lists
Concat(ss) == IF ss = <<>> THEN <<>> ELSE Head(ss) \o Concat(Tail(ss))

Abs(x) == IF x < 0 THEN -x ELSE x

\* ------------------------------------------------- str.lower(), str.strip()

LowerOf(c) == IF c = "A" THEN "a" ELSE IF c = "B" THEN "b" ELSE c

Lower(s) == [i \in DOMAIN s |-> LowerOf(s[i])]

RECURSIVE LStrip(_)
LStrip(s) == IF s # <<>> /\ Head(s) = " " THEN LStrip(Tail(s)) ELSE s

RECURSIVE RStrip(_)
RStrip(s) ==
    IF s # <<>> /\ s[Len(s)] = " " THEN RStrip(SubSeq(s, 1, Len(s) - 1)) ELSE s

Strip(s) == RStrip(LStrip(s))

\* name.lower().strip()
NormalizeName(s) == Strip(Lower(s))

\* ------------------------------------------- difflib.SequenceMatcher.ratio

RECURSIVE CommonLen(_, _, _, _, _, _)
\* length of the longest common run of a[i..ahi-1] and b[j..bhi-1] starting at i, j
CommonLen(a, b, i, ahi, j, bhi) ==
    IF i < ahi /\ j < bhi /\ a[i] = b[j]
    THEN 1 + CommonLen(a, b, i + 1, ahi, j + 1, bhi)
    ELSE 0

\* find_longest_match(alo, ahi, blo, bhi) without junk: the longest block, of
\* those the one starting earliest in a, of those the one starting earliest in b.
\* Index ranges are alo..ahi-1 and blo..bhi-1. Returns <<i, j, k>>.
FindLongestMatch(a, b, alo, ahi, blo, bhi) ==
    LET cands == {<<i, j>> : i \in alo..(ahi - 1), j \in blo..(bhi - 1)}
        len(c) == CommonLen(a, b, c[1], ahi, c[2], bhi)
        best == IF cands = {} THEN 0
                ELSE CHOOSE k \in {len(c) : c \in cands} :
                        \A c \in cands : len(c) <= k
    IN  IF best = 0 THEN <<alo, blo, 0>>
        ELSE LET top == {c \in cands : len(c) = best}
                 i0 == CHOOSE i \in {c[1] : c \in top} : \A c \in top : i <= c[1]
                 j0 == CHOOSE j \in {c[2] : c \in {d \in top : d[1] = i0}} :
                          \A c \in {d \in top : d[1] = i0} : j <= c[2]
             IN <<i0, j0, best>>

RECURSIVE MatchedChars(_, _, _, _, _, _)
\* sum of the sizes of get_matching_blocks() restricted to a[alo..ahi-1], b[blo..bhi-1]
MatchedChars(a, b, alo, ahi, blo, bhi) ==
    LET m == FindLongestMatch(a, b, alo, ahi, blo, bhi)
        i == m[1]
        j == m[2]
        k == m[3]
    IN  IF k = 0 THEN 0
        ELSE k
             + (IF alo < i /\ blo < j THEN MatchedChars(a, b, alo, i, blo, j) ELSE 0)
             + (IF i + k < ahi /\ j + k < bhi
                THEN MatchedChars(a, b, i + k, ahi, j + k, bhi) ELSE 0)

\* SequenceMatcher(None, a, b).ratio() as the exact fraction <<num, den>>:
\* 2.0 * matches / (len(a) + len(b)), and 1.0 when both are empty.
Ratio(a, b) ==
    IF Len(a) + Len(b) = 0 THEN <<1, 1>>
    ELSE <<2 * MatchedChars(a, b, 1, Len(a) + 1, 1, Len(b) + 1), Len(a) + Len(b)>>

\* comparisons of non-negative fractions <<num, den>>, den > 0
FracGT(x, y) == x[1] * y[2] > y[1] * x[2]
FracGE(x, y) == x[1] * y[2] >= y[1] * x[2]

RECURSIVE FuzzyScan(_, _, _, _, _)
\* the loop of _fuzzy_match: best_match, best_ratio carried through the candidates
FuzzyScan(query, candidates, threshold, best_match, best_ratio) ==
    IF candidates = <<>> THEN best_match
    ELSE LET candidate == Head(candidates)
             ratio == Ratio(Lower(query), Lower(candidate))
         IN  IF FracGT(ratio, best_ratio) /\ FracGE(ratio, threshold)
             THEN FuzzyScan(query, Tail(candidates), threshold, Some(candidate), ratio)
             ELSE FuzzyScan(query, Tail(candidates), threshold, best_match, best_ratio)

\* RulesEngine._fuzzy_match: Optional[str]
FuzzyMatch(query, candidates, threshold) ==
    FuzzyScan(query, candidates, threshold, None, <<0, 1>>)


\* ------------------------------------------------------------ Python dicts

\* A dict is a function on its keys; {} is the empty function.
EmptyDict == <<>>
HasKey(d, k) == k \in DOMAIN d
\* d.get(k, default)
DictGet(d, k, default) == IF k \in DOMAIN d THEN d[k] ELSE default
\* d[k] = v
DictSet(d, k, v) == [x \in (DOMAIN d) \cup {k} |-> IF x = k THEN v ELSE d[x]]

\* ------------------------------------------------- canonical schema helpers

\* LCAStages.total_embodied_carbon: A1-A5 plus C1-C4 and D when truthy (kg CO2-e)
StagesTotal(st) ==
    st.a1_a3 + st.a4 + st.a5
    + (IF TruthyNum(st.c1_c4) THEN st.c1_c4[1] ELSE 0)
    + (IF TruthyNum(st.d) THEN st.d[1] ELSE 0)

\* a validity period that excludes its last day
IsValidBefore(epd, check_date) ==
    epd.valid_from <= check_date /\ check_date < epd.valid_until

\* EPDDocument.is_valid_on
IsValidOn(epd, check_date) ==
    epd.valid_from <= check_date /\ check_date <= epd.valid_until

\* TransportLeg.calculate_emissions, in hundredths of a kg CO2-e:
\* cargo_weight_kg is counted in units of 1000 kg, emissions_factor in
\* hundredths, so (cargo / 1000) * distance * factor = cargo_t * km * ef_100 / 100.
LegEmissions(leg) ==
    IF TruthyNum(leg.emissions_factor)
    THEN leg.cargo_weight_kg * leg.distance_km * leg.emissions_factor[1]
    ELSE 0

\* TransportLog.total_emissions, in hundredths of a kg CO2-e
LogEmissions(log) == SumSeq([i \in DOMAIN log.legs |-> LegEmissions(log.legs[i])])

\* ComplianceProject.total_embodied_carbon, in hundredths of a kg CO2-e
TotalEmbodiedCarbon(p) ==
    100 * SumSeq([i \in DOMAIN p.epds |-> StagesTotal(p.epds[i].lca_stages)])
    + SumSeq([i \in DOMAIN p.transport_logs |-> LogEmissions(p.transport_logs[i])])
    + 100 * SumSeq([i \in DOMAIN p.waste_streams |->
                      IF TruthyNum(p.waste_streams[i].total_emissions)
                      THEN p.waste_streams[i].total_emissions[1] ELSE 0])

\* ComplianceProject.carbon_intensity_per_m2: Optional fraction <<num, den>> of
\* kg CO2-e per m2 (total / gross floor area); None when the area is falsy.
CarbonIntensityPerM2(p) ==
    IF TruthyNum(p.gross_floor_area_m2)
    THEN Some(<<TotalEmbodiedCarbon(p), 100 * p.gross_floor_area_m2[1]>>)
    ELSE None

\* Decimal comparisons of a fraction <<num, den>> (den # 0 of either sign)
\* with an integer. The quotient of two Decimals of few digits is compared
\* exactly: its 28-digit rounding cannot cross an integer it does not equal.
DecLE(q, n) == IF q[2] > 0 THEN q[1] <= n * q[2] ELSE q[1] >= n * q[2]
DecGT(q, n) == ~DecLE(q, n)

\* --------------------------------------------------------- rule catalogue

HandlerIds ==
    {"epd_validity", "material_traceability", "ncc_embodied_carbon",
     "transport_verification", "waste_circularity", "data_quality",
     "temporal_validity", "scope_boundary", "double_counting", "evidence_linkage"}

\* getattr(self, f'_check_{rule_id}', None) is not None
HasHandler(rule_id) == rule_id \in HandlerIds

\* rule.get('enabled', True)
RuleEnabled(rule) == DictGet(rule, "enabled", TRUE)

\* The data a YAML document can parse to: kind "list" with its items; kind
\* "mapping" or "str", whose iteration yields its keys or characters (items
\* that are not dicts); kind "null" or "int", which cannot be iterated.
\* An item is [isdict |-> BOOLEAN, d |-> dict].
Iterable(data) == data.kind \in {"list", "mapping", "str"}

IsRuleItem(item) == item.isdict /\ HasKey(item.d, "rule_id")

\* rules = [item for item in data if isinstance(item, dict) and 'rule_id' in item]
LoadedRules(data) ==
    LET keep == SelectSeq(data.items, IsRuleItem)
    IN  [i \in DOMAIN keep |-> keep[i].d]

\* next((f(item) for item in data if isinstance(item, dict) and key in item), default)
FirstWithKey(data, key, default) ==
    LET idx == {i \in DOMAIN data.items :
                   data.items[i].isdict /\ HasKey(data.items[i].d, key)}
    IN  IF idx = {} THEN default
        ELSE data.items[CHOOSE i \in idx : \A j \in idx : i <= j].d[key]

LoadedGlobalSettings(data) == FirstWithKey(data, "global_settings", EmptyDict)
LoadedVersion(data) == FirstWithKey(data, "version", "1.0.0")

\* ---------------------------------------------------------------- findings

\* A description is a list of parts, each a tuple that starts with the fixed
\* words of the f-string fragment it stands for and carries the interpolated
\* values after them. '; '.join(issues) is the concatenation of the issues.
Cond(b, part) == IF b THEN <<part>> ELSE <<>>

\* Remediation(action=rule['remediation']['action'], ...)
RuleRemediation(rule) ==
    [action |-> rule.remediation.action,
     responsible_party |-> rule.remediation.responsible_party,
     resources |-> rule.remediation.resources]

\* ComplianceFinding(...); finding_id is given by the caller of the handler
\* model from the uuid4 counter (0 until then).
Finding(rule_id, rule_name, severity, passed, description, entity_id, entity_type, evidence_uris, remediation, metadata) ==
    [finding_id |-> 0, rule_id |-> rule_id, rule_name |-> rule_name,
     severity |-> severity, passed |-> passed, description |-> description,
     entity_id |-> entity_id, entity_type |-> entity_type,
     evidence_uris |-> evidence_uris, remediation |-> remediation,
     metadata |-> metadata]

\* [ev.uri for ev in evidence]
Uris(evidence) == [i \in DOMAIN evidence |-> evidence[i].uri]

\* What a handler call does: the exception it raises ("" when it returns), the
\* findings it returns, and self.context as it leaves it.
Returns(findings, ctx) == [exc |-> "", findings |-> findings, context |-> ctx]
Raises(exc, ctx) == [exc |-> exc, findings |-> <<>>, context |-> ctx]

\* ------------------------------------------------- check 1: _check_epd_validity

EpdValidityFinding(epd, rule, check_date) ==
    LET not_valid == ~IsValidOn(epd, check_date)
        unverified == epd.epd_type = "product-specific" /\ ~epd.is_verified
        no_number == epd.epd_number = ""
        recognized_sources == rule.conditions.all[5].value
        unrecognized == epd.source \notin Range(recognized_sources)
        passed == ~not_valid /\ ~unverified /\ ~no_number /\ ~unrecognized
        issues ==
            Cond(not_valid, <<"EPD expired or not yet valid on", check_date>>)
            \o Cond(unverified, <<"Product-specific EPD must be third-party verified">>)
            \o Cond(no_number, <<"Missing EPD registration number">>)
            \o Cond(unrecognized, <<"EPD source not in recognized list", epd.source>>)
        severity == IF epd.epd_type = "product-specific" THEN "CRITICAL" ELSE "WARNING"
    IN  Finding(rule.rule_id, <<rule.name>>,
                IF ~passed THEN severity ELSE "INFO",
                passed,
                <<(<<"EPD", epd.product_name, epd.epd_number>>)>>
                    \o (IF ~passed THEN issues ELSE <<(<<"Valid and verified">>)>>),
                Some(epd.id), "epd", Uris(epd.evidence), RuleRemediation(rule),
                [epd_number |-> epd.epd_number, epd_type |-> epd.epd_type,
                 valid_from |-> epd.valid_from, valid_until |-> epd.valid_until])

CheckEpdValidity(project, rule, ctx, now) ==
    LET check_date == ctx.check_date
    IN  Returns([i \in DOMAIN project.epds |->
                    EpdValidityFinding(project.epds[i], rule, check_date)], ctx)

\* ----------------------------------------- check 2: _check_material_traceability

\* every (line_item, invoice) of the project, in iteration order
InvoiceLines(project) ==
    Concat([i \in DOMAIN project.invoices |->
              [j \in DOMAIN project.invoices[i].line_items |->
                  [line_item |-> project.invoices[i].line_items[j],
                   invoice |-> project.invoices[i]]]])

\* every element of every BIM model, in iteration order
BimElements(project) ==
    Concat([i \in DOMAIN project.bim_models |-> project.bim_models[i].elements])

RECURSIVE DistinctInOrder(_)
\* the keys of a dict filled in the order of s: first occurrences, in order
DistinctInOrder(s) ==
    IF s = <<>> THEN <<>>
    ELSE LET front == DistinctInOrder(SubSeq(s, 1, Len(s) - 1))
         IN  IF s[Len(s)] \in Range(front) THEN front ELSE Append(front, s[Len(s)])

\* invoice_products.keys(): normalised product names in first-insertion order
InvoiceProductKeys(project) ==
    LET lines == InvoiceLines(project)
    IN  DistinctInOrder([i \in DOMAIN lines |->
                            NormalizeName(lines[i].line_item.product_name)])

\* invoice_products[key]: a later line item overwrites an earlier one with the key
InvoiceProduct(project, key) ==
    LET lines == InvoiceLines(project)
        idx == {i \in DOMAIN lines :
                   NormalizeName(lines[i].line_item.product_name) = key}
    IN  lines[CHOOSE i \in idx : \A j \in idx : j <= i]

\* element.name or element.ifc_type
ElementLabel(element) ==
    IF TruthyStr(element.name) THEN element.name[1] ELSE element.ifc_type

\* material_key after the direct lookup and the fuzzy fallback; `if not matched`
\* takes None and the empty string as no match
FuzzyKey(key0, matched) ==
    IF matched = None \/ matched[1] = <<>>
    THEN [no_match |-> TRUE, key |-> key0]
    ELSE [no_match |-> FALSE, key |-> matched[1]]

MaterialKey(keys, key0) ==
    IF key0 \in Range(keys) THEN [no_match |-> FALSE, key |-> key0]
    ELSE FuzzyKey(key0, FuzzyMatch(key0, keys, <<4, 5>>))

\* The tests on the matched entry. variance is computed in floats as
\* abs(float(element.quantity - line.quantity)) / float(line.quantity) * 100
\* and compared with 10; here as the exact comparison of the two quantities.
LinkIssues(element, entry) ==
    [no_factor |-> ~TruthyStr(entry.line_item.epd_id)
                   /\ ~HasKey(entry.line_item.metadata, "emissions_factor"),
     no_abn |-> ~TruthyStr(entry.invoice.supplier_abn),
     div_zero |-> entry.line_item.unit = element.unit /\ entry.line_item.quantity = 0,
     variance |-> /\ entry.line_item.unit = element.unit
                  /\ entry.line_item.quantity > 0
                  /\ Abs(element.quantity - entry.line_item.quantity) * 100
                         > 10 * entry.line_item.quantity]

TraceResult(element, no_match, l) ==
    [div_zero |-> l.div_zero,
     passed |-> ~no_match /\ ~l.no_factor /\ ~l.no_abn /\ ~l.variance,
     issues |->
        Cond(no_match, <<"No invoice found for BIM material", element.material_name>>)
        \o Cond(l.no_factor, <<"No EPD or emissions factor linked">>)
        \o Cond(l.no_abn, <<"Missing supplier ABN">>)
        \o Cond(l.variance, <<"Quantity variance exceeds +-10% tolerance">>)]

TraceLinked(project, element, keys, m) ==
    TraceResult(element, m.no_match,
                IF m.key \in Range(keys)
                THEN LinkIssues(element, InvoiceProduct(project, m.key))
                ELSE [no_factor |-> FALSE, no_abn |-> FALSE, div_zero |-> FALSE,
                      variance |-> FALSE])

\* What the loop body decides for one element.
TraceElement(project, element) ==
    TraceLinked(project, element, InvoiceProductKeys(project),
                MaterialKey(InvoiceProductKeys(project),
                            NormalizeName(element.material_name)))

MaterialTraceabilityFinding(project, element, rule) ==
    LET t == TraceElement(project, element)
    IN  Finding(rule.rule_id, <<rule.name>>,
                IF ~t.passed THEN "HIGH" ELSE "INFO",
                t.passed,
                <<(<<"BIM element", ElementLabel(element), element.material_name>>)>>
                    \o (IF ~t.passed THEN t.issues ELSE <<(<<"Fully traceable">>)>>),
                Some(element.id), "ifc_element", Uris(element.evidence),
                RuleRemediation(rule), EmptyDict)

CheckMaterialTraceability(project, rule, ctx, now) ==
    LET elements == BimElements(project)
    IN  IF \E i \in DOMAIN elements : TraceElement(project, elements[i]).div_zero
        THEN Raises("ZeroDivisionError", ctx)
        ELSE Returns([i \in DOMAIN elements |->
                         MaterialTraceabilityFinding(project, elements[i], rule)], ctx)

\* ------------------------------------------- check 3: _check_ncc_embodied_carbon

\* thresholds.get(project.project_type, 850)
DefaultThreshold == 850
NccThreshold(project, rule) ==
    DictGet(rule.thresholds, project.project_type, DefaultThreshold)

\* the stage tests of the completeness loop: `not epd.lca_stages.a1_a3` etc.
StageMissing(value) == value = 0

IncompleteStages(project) ==
    Concat([i \in DOMAIN project.epds |->
        LET epd == project.epds[i]
        IN  Cond(StageMissing(epd.lca_stages.a1_a3), <<"missing A1-A3", epd.epd_number>>)
            \o Cond(StageMissing(epd.lca_stages.a4), <<"missing A4", epd.epd_number>>)
            \o Cond(StageMissing(epd.lca_stages.a5), <<"missing A5", epd.epd_number>>)])

\* carbon_intensity <= Decimal(threshold)
WithinThreshold(carbon_intensity, threshold) == DecLE(carbon_intensity, threshold)

NccMissingAreaFinding(project, rule) ==
    Finding(rule.rule_id, <<rule.name>>, "CRITICAL", FALSE,
            <<(<<"Cannot calculate carbon intensity - missing gross floor area">>)>>,
            Some(project.id), "project", <<>>,
            [action |-> "Provide gross floor area for project",
             responsible_party |-> "Design team", resources |-> <<>>],
            EmptyDict)

NccFinding(project, rule, carbon_intensity, threshold) ==
    LET incomplete_stages == IncompleteStages(project)
        passed == WithinThreshold(carbon_intensity, threshold)
                  /\ incomplete_stages = <<>>
    IN  Finding(rule.rule_id, <<rule.name>>,
                IF ~passed THEN "CRITICAL" ELSE "INFO",
                passed,
                <<(<<"Carbon intensity (threshold)", carbon_intensity, threshold>>)>>
                    \o (IF ~passed
                        THEN Cond(DecGT(carbon_intensity, threshold),
                                  <<"EXCEEDS threshold">>)
                             \o (IF incomplete_stages # <<>>
                                 THEN <<(<<"Incomplete stages">>)>> \o incomplete_stages
                                 ELSE <<>>)
                        ELSE <<(<<"COMPLIANT">>)>>),
                Some(project.id), "project", <<>>, RuleRemediation(rule),
                [carbon_intensity |-> carbon_intensity, threshold |-> threshold,
                 project_type |-> project.project_type,
                 gross_floor_area_m2 |-> project.gross_floor_area_m2])

\* a check for which a missing gross floor area is fatal
CheckNccAreaRequired(project, rule, ctx, now) ==
    IF CarbonIntensityPerM2(project) = None
    THEN Raises("ValueError", DictSet(ctx, "ncc_threshold", NccThreshold(project, rule)))
    ELSE Returns(<<NccFinding(project, rule, CarbonIntensityPerM2(project)[1],
                              NccThreshold(project, rule))>>,
                 DictSet(ctx, "ncc_threshold", NccThreshold(project, rule)))

CheckNccEmbodiedCarbon(project, rule, ctx, now) ==
    LET threshold == NccThreshold(project, rule)
        ctx1 == DictSet(ctx, "ncc_threshold", threshold)
        carbon_intensity == CarbonIntensityPerM2(project)
    IN  IF carbon_intensity = None
        THEN Returns(<<NccMissingAreaFinding(project, rule)>>, ctx1)
        ELSE Returns(<<NccFinding(project, rule, carbon_intensity[1], threshold)>>, ctx1)

\* ---------------------------------------- check 4: _check_transport_verification

\* every leg of every transport log with the log it belongs to, in iteration order
TransportLegs(project) ==
    Concat([i \in DOMAIN project.transport_logs |->
              [j \in DOMAIN project.transport_logs[i].legs |->
                  [leg |-> project.transport_logs[i].legs[j],
                   log |-> project.transport_logs[i]]]])

\* leg.origin.city or 'Unknown'
CityOrUnknown(location) ==
    IF TruthyStr(location.city) THEN location.city[1] ELSE "Unknown"

\* distance_km in km; emissions_factor and load_factor in hundredths
TransportFinding(leg, log, rule) ==
    LET is_international == leg.origin.country # leg.destination.country
        max_distance == IF is_international THEN 20000 ELSE 5000
        too_far == leg.distance_km > max_distance
        bad_factor == TruthyNum(leg.emissions_factor)
                      /\ ~(1 <= leg.emissions_factor[1] /\ leg.emissions_factor[1] <= 200)
        bad_load == ~(30 <= leg.load_factor /\ leg.load_factor <= 100)
        passed == ~too_far /\ ~bad_factor /\ ~bad_load
        issues ==
            Cond(too_far, <<"Distance exceeds maximum", leg.distance_km, max_distance>>)
            \o Cond(bad_factor, <<"Emissions factor outside realistic range (0.01-2.0)",
                                  leg.emissions_factor>>)
            \o Cond(bad_load, <<"Load factor outside realistic range (0.3-1.0)",
                                leg.load_factor>>)
    IN  Finding(rule.rule_id, <<rule.name>>,
                IF ~passed THEN "MEDIUM" ELSE "INFO",
                passed,
                <<(<<"Transport leg", CityOrUnknown(leg.origin),
                     CityOrUnknown(leg.destination), leg.distance_km>>)>>
                    \o (IF ~passed THEN issues ELSE <<(<<"Verified">>)>>),
                Some(leg.id), "transport_leg", Uris(log.evidence),
                RuleRemediation(rule),
                [distance_km |-> leg.distance_km, transport_mode |-> leg.transport_mode,
                 emissions_factor |->
                    IF TruthyNum(leg.emissions_factor) THEN leg.emissions_factor ELSE None])

CheckTransportVerification(project, rule, ctx, now) ==
    LET legs == TransportLegs(project)
    IN  Returns([i \in DOMAIN legs |-> TransportFinding(legs[i].leg, legs[i].log, rule)],
                ctx)

\* --------------------------------------------- check 5: _check_waste_circularity

\* waste_kg: tonnes are converted, every other unit is taken as it is
WasteKgUnconverted(ws) == ws.quantity

WasteKg(ws) == IF ws.unit = "tonne" THEN ws.quantity * 1000 ELSE ws.quantity

HasAnyEvidence(evidence, type) == evidence # <<>>

HasEvidenceOfType(evidence, type) == \E i \in DOMAIN evidence : evidence[i].type = type

WasteStreamFinding(ws, rule) ==
    LET no_type == ws.waste_type = ""
        no_facility == ws.disposal_facility = ""
        no_receipt == ws.waste_type = "hazardous"
                      /\ ~HasEvidenceOfType(ws.evidence, "waste_receipt")
        no_cert == TruthyNum(ws.recycled_content_pct) /\ ws.recycled_content_pct[1] > 0
                   /\ ~HasEvidenceOfType(ws.evidence, "certification")
        passed == ~no_type /\ ~no_facility /\ ~no_receipt /\ ~no_cert
        issues ==
            Cond(no_type, <<"Missing waste type classification">>)
            \o Cond(no_facility, <<"Missing disposal facility">>)
            \o Cond(no_receipt, <<"Hazardous waste missing special handling documentation">>)
            \o Cond(no_cert, <<"Recycled content claim lacks certification">>)
    IN  Finding(rule.rule_id, <<rule.name>>,
                IF ~passed THEN "MEDIUM" ELSE "INFO",
                passed,
                <<(<<"Waste stream", ws.material_description, ws.quantity, ws.unit>>)>>
                    \o (IF ~passed THEN issues ELSE <<(<<"Properly documented">>)>>),
                Some(ws.id), "waste_stream", Uris(ws.evidence), RuleRemediation(rule),
                EmptyDict)

TotalWaste(project) ==
    SumSeq([i \in DOMAIN project.waste_streams |-> WasteKg(project.waste_streams[i])])

RecycledReused(project) ==
    SumSeq([i \in DOMAIN project.waste_streams |->
              IF project.waste_streams[i].waste_type \in {"recycled", "reused"}
              THEN WasteKg(project.waste_streams[i]) ELSE 0])

\* diversion_rate = (recycled_reused / total_waste) * 100 >= 70, total_waste > 0
DiversionFinding(project, rule) ==
    LET total_waste == TotalWaste(project)
        recycled_reused == RecycledReused(project)
        diversion_passed == recycled_reused * 100 >= 70 * total_waste
    IN  Finding(rule.rule_id, <<rule.name, " - Diversion Rate">>,
                IF ~diversion_passed THEN "MEDIUM" ELSE "INFO",
                diversion_passed,
                <<(<<"Waste diversion rate (target 70%)", recycled_reused, total_waste>>)>>,
                Some(project.id), "project", <<>>,
                [action |-> "Increase recycling and reuse to achieve 70% diversion target",
                 responsible_party |-> "Site manager",
                 resources |-> rule.remediation.resources],
                [total_waste_kg |-> total_waste, diverted_kg |-> recycled_reused])

CheckWasteCircularity(project, rule, ctx, now) ==
    Returns([i \in DOMAIN project.waste_streams |->
                WasteStreamFinding(project.waste_streams[i], rule)]
            \o (IF TotalWaste(project) > 0
                THEN <<DiversionFinding(project, rule)>> ELSE <<>>),
            ctx)

\* --------------------------------------------------- check 6: _check_data_quality

\* primary_coverage_pct = (primary_data_count / total_materials) * 100, or 0 for
\* no invoices; passed = primary_coverage_pct >= 80
DataQualityFinding(project, rule) ==
    LET total_materials == Len(project.invoices)
        primary_data_count ==
            Cardinality({i \in DOMAIN project.invoices : project.invoices[i].evidence # <<>>})
        passed == IF total_materials > 0
                  THEN primary_data_count * 100 >= 80 * total_materials
                  ELSE FALSE
    IN  Finding(rule.rule_id, <<rule.name>>,
                IF ~passed THEN "HIGH" ELSE "INFO",
                passed,
                <<(<<"Primary data coverage (target 80%)", primary_data_count,
                     total_materials>>),
                  (IF ~passed THEN <<"INSUFFICIENT">> ELSE <<"SUFFICIENT">>)>>,
                Some(project.id), "project", <<>>, RuleRemediation(rule),
                [total_materials |-> total_materials,
                 primary_data_count |-> primary_data_count])

CheckDataQualityOfInvoices(project, rule, ctx, now) ==
    Returns(IF project.invoices = <<>> THEN <<>>
            ELSE <<DataQualityFinding(project, rule)>>, ctx)

CheckDataQuality(project, rule, ctx, now) ==
    Returns(<<DataQualityFinding(project, rule)>>, ctx)

\* ---------------------------------------------- check 7: _check_temporal_validity

FindNoEpd(project, epd_id) == None

\* next((e for e in project.epds if e.id == epd_id), None)
FindEpd(project, epd_id) ==
    LET idx == {i \in DOMAIN project.epds : project.epds[i].id = epd_id}
    IN  IF idx = {} THEN None
        ELSE Some(project.epds[CHOOSE i \in idx : \A j \in idx : i <= j])

TemporalFinding(project, invoice, rule, now) ==
    LET project_start == project.start_date - 30
        \* (project.end_date or date.today()) + timedelta(days=30)
        project_end == (IF project.end_date # None THEN project.end_date[1] ELSE now) + 30
        outside == ~(project_start <= invoice.invoice_date
                     /\ invoice.invoice_date <= project_end)
        stale(line_item) ==
            /\ TruthyStr(line_item.epd_id)
            /\ FindEpd(project, line_item.epd_id[1]) # None
            /\ ~IsValidOn(FindEpd(project, line_item.epd_id[1])[1], invoice.invoice_date)
        epd_issues ==
            Concat([j \in DOMAIN invoice.line_items |->
                Cond(stale(invoice.line_items[j]),
                     <<"EPD not valid on invoice date",
                       IF stale(invoice.line_items[j])
                       THEN FindEpd(project, invoice.line_items[j].epd_id[1])[1].epd_number
                       ELSE "">>)])
        passed == ~outside /\ epd_issues = <<>>
    IN  Finding(rule.rule_id, <<rule.name>>,
                IF ~passed THEN "MEDIUM" ELSE "INFO",
                passed,
                <<(<<"Invoice dated", invoice.invoice_number, invoice.invoice_date>>)>>
                    \o (IF ~passed
                        THEN Cond(outside, <<"Invoice date outside project period",
                                             invoice.invoice_date>>) \o epd_issues
                        ELSE <<(<<"Dates aligned">>)>>),
                Some(invoice.id), "invoice", Uris(invoice.evidence),
                RuleRemediation(rule), EmptyDict)

CheckTemporalValidity(project, rule, ctx, now) ==
    Returns([i \in DOMAIN project.invoices |->
                TemporalFinding(project, project.invoices[i], rule, now)], ctx)

\* ------------------------------------------------- check 8: _check_scope_boundary

ScopeBoundaryFinding(project, rule) ==
    LET issues ==
            Cond(project.epds = <<>>, <<"No EPDs documented for Scope 3 Category 1">>)
            \o Cond(project.transport_logs = <<>>,
                    <<"No transport logs for Scope 3 Category 4">>)
            \o Concat([i \in DOMAIN project.meters |->
                  Cond(project.meters[i].start_date < project.end_date[1],
                       <<"Meter readings overlap construction period",
                         project.meters[i].meter_id>>)])
        passed == issues = <<>>
    IN  Finding(rule.rule_id, <<rule.name>>,
                IF ~passed THEN "HIGH" ELSE "INFO",
                passed,
                <<(<<"GHG Protocol scope boundary alignment">>)>>
                    \o (IF ~passed THEN issues ELSE <<(<<"Properly categorized">>)>>),
                Some(project.id), "project", <<>>, RuleRemediation(rule), EmptyDict)

\* meter.start_date < project.end_date raises TypeError when end_date is None
CheckScopeBoundary(project, rule, ctx, now) ==
    IF project.meters # <<>> /\ project.end_date = None
    THEN Raises("TypeError", ctx)
    ELSE Returns(<<ScopeBoundaryFinding(project, rule)>>, ctx)

\* ------------------------------------------------ check 9: _check_double_counting

\* the (key, reference) pairs in the order material_refs receives them
MaterialRefPairs(project) ==
    LET elements == BimElements(project)
        lines == InvoiceLines(project)
    IN  [i \in DOMAIN elements |->
            [key |-> NormalizeName(elements[i].material_name),
             ref |-> <<"BIM", elements[i].id>>]]
        \o [i \in DOMAIN lines |->
            [key |-> NormalizeName(lines[i].line_item.product_name),
             ref |-> <<"Invoice", lines[i].invoice.invoice_number,
                       lines[i].line_item.line_number>>]]

\* material_refs[key]
MaterialRefs(project, key) ==
    LET pairs == MaterialRefPairs(project)
        hits == SelectSeq(pairs, LAMBDA pr : pr.key = key)
    IN  [i \in DOMAIN hits |-> hits[i].ref]

\* duplicates = {k: v for k, v in material_refs.items() if len(v) > 1}, as its keys
DuplicateMaterials(project) ==
    LET pairs == MaterialRefPairs(project)
        keys == DistinctInOrder([i \in DOMAIN pairs |-> pairs[i].key])
    IN  SelectSeq(keys, LAMBDA k : Len(MaterialRefs(project, k)) > 1)

DuplicateFinding(project, rule, material) ==
    LET refs == MaterialRefs(project, material)
    IN  Finding(rule.rule_id, <<rule.name>>, "CRITICAL", FALSE,
                <<(<<"Material appears in multiple sources", material>>)>> \o refs,
                Some(project.id), "project", <<>>, RuleRemediation(rule),
                [material |-> material, references |-> refs])

NoDuplicatesFinding(project, rule) ==
    Finding(rule.rule_id, <<rule.name>>, "INFO", TRUE,
            <<(<<"No double-counting detected across data sources">>)>>,
            Some(project.id), "project", <<>>,
            [action |-> "Continue monitoring for duplicates",
             responsible_party |-> rule.remediation.responsible_party,
             resources |-> <<>>],
            EmptyDict)

\* a check that reports on violation only
CheckDoubleCountingOnViolation(project, rule, ctx, now) ==
    Returns([i \in DOMAIN DuplicateMaterials(project) |->
                DuplicateFinding(project, rule, DuplicateMaterials(project)[i])], ctx)

CheckDoubleCounting(project, rule, ctx, now) ==
    LET duplicates == DuplicateMaterials(project)
    IN  IF duplicates # <<>>
        THEN Returns([i \in DOMAIN duplicates |->
                         DuplicateFinding(project, rule, duplicates[i])], ctx)
        ELSE Returns(<<NoDuplicatesFinding(project, rule)>>, ctx)

\* ---------------------------------------------- check 10: _check_evidence_linkage

\* ev.filename or ev.uri
EvidenceLabel(ev) == IF TruthyStr(ev.filename) THEN ev.filename[1] ELSE ev.uri

\* an EPD accepted whatever its evidence
EpdEvidenceAccepted(epd, rule) ==
    Finding(rule.rule_id, <<rule.name>>, "INFO", TRUE,
            <<(<<"EPD evidence linkage", epd.epd_number>>),
              (<<"evidence document(s) verified", Len(epd.evidence)>>)>>,
            Some(epd.id), "epd", Uris(epd.evidence), RuleRemediation(rule),
            [evidence_count |-> Len(epd.evidence)])

EpdEvidenceFinding(epd, rule) ==
    LET issues ==
            Cond(epd.evidence = <<>>, <<"No evidence documents attached">>)
            \o Concat([i \in DOMAIN epd.evidence |->
                  Cond(~TruthyStr(epd.evidence[i].hash),
                       <<"Evidence missing SHA-256 hash", EvidenceLabel(epd.evidence[i])>>)])
        passed == issues = <<>>
    IN  Finding(rule.rule_id, <<rule.name>>,
                IF ~passed THEN "CRITICAL" ELSE "INFO",
                passed,
                <<(<<"EPD evidence linkage", epd.epd_number>>)>>
                    \o (IF ~passed THEN issues
                        ELSE <<(<<"evidence document(s) verified", Len(epd.evidence)>>)>>),
                Some(epd.id), "epd", Uris(epd.evidence), RuleRemediation(rule),
                [evidence_count |-> Len(epd.evidence)])

DanglingEpdFinding(invoice, line_item, rule) ==
    Finding(rule.rule_id, <<rule.name>>, "HIGH", FALSE,
            <<(<<"Invoice line references non-existent EPD", invoice.invoice_number,
                 line_item.line_number, line_item.epd_id[1]>>)>>,
            Some(invoice.id), "invoice", <<>>,
            [action |-> "Fix broken EPD reference or provide missing EPD",
             responsible_party |-> rule.remediation.responsible_party,
             resources |-> rule.remediation.resources],
            EmptyDict)

\* a check of the EPDs' evidence alone
CheckEvidenceOfEpds(project, rule, ctx, now) ==
    Returns([i \in DOMAIN project.epds |-> EpdEvidenceFinding(project.epds[i], rule)], ctx)

CheckEvidenceLinkage(project, rule, ctx, now) ==
    LET lines == InvoiceLines(project)
        dangling == SelectSeq(lines, LAMBDA ln :
                        TruthyStr(ln.line_item.epd_id)
                        /\ FindEpd(project, ln.line_item.epd_id[1]) = None)
    IN  Returns([i \in DOMAIN project.epds |-> EpdEvidenceFinding(project.epds[i], rule)]
                \o [i \in DOMAIN dangling |->
                      DanglingEpdFinding(dangling[i].invoice, dangling[i].line_item, rule)],
                ctx)

\* ----------------------------------------------------- fallback: _generic_check

\* a fallback finding filed as informational
GenericFindingInfo(project, rule) ==
    Finding(rule.rule_id, <<rule.name>>, "INFO", FALSE,
            <<(<<"Rule not yet implemented", rule.rule_id>>)>>,
            Some(project.id), "project", <<>>,
            [action |-> "Implement rule handler",
             responsible_party |-> "Development team", resources |-> <<>>],
            EmptyDict)

GenericFinding(project, rule) ==
    Finding(rule.rule_id, <<rule.name>>, "WARNING", FALSE,
            <<(<<"Rule not yet implemented", rule.rule_id>>)>>,
            Some(project.id), "project", <<>>,
            [action |-> "Implement rule handler",
             responsible_party |-> "Development team", resources |-> <<>>],
            EmptyDict)

\* a fallback that reports nothing
GenericCheckSilent(project, rule, ctx, now) == Returns(<<>>, ctx)

GenericCheck(project, rule, ctx, now) ==
    Returns(<<GenericFinding(project, rule)>>, ctx)

\* ------------------------------------------------------------------- report

\* ComplianceReport(project_id=..., project_name=..., rules_version=...)
NewReport(project, rules_version, id, now) ==
    [report_id |-> id, project_id |-> project.id, project_name |-> project.project_name,
     generated_at |-> now, rules_version |-> rules_version, engine_version |-> "1.0.0",
     findings |-> <<>>,
     total_checks |-> 0, passed_checks |-> 0, failed_checks |-> 0,
     critical_count |-> 0, high_count |-> 0, medium_count |-> 0, low_count |-> 0,
     compliant |-> FALSE]

\* severity counters that count a finding whatever its outcome
FailedWithAnyOutcome(findings, severities) ==
    Cardinality({i \in DOMAIN findings : findings[i].severity \in severities})

\* the severity counters of calculate_summary
FailedWith(findings, severities) ==
    Cardinality({i \in DOMAIN findings :
                    ~findings[i].passed /\ findings[i].severity \in severities})

\* a verdict that looks at critical failures only
CompliantCriticalOnly(critical_count, high_count) == critical_count = 0

\* the verdict of calculate_summary
Compliant(critical_count, high_count) == critical_count = 0 /\ high_count = 0

\* a summary that adds to the counters the report already holds
CalculateSummaryOnTop(r) ==
    [r EXCEPT !.total_checks = r.total_checks + Len(r.findings),
              !.passed_checks = r.passed_checks
                                + Cardinality({i \in DOMAIN r.findings : r.findings[i].passed}),
              !.failed_checks = r.failed_checks
                                + Cardinality({i \in DOMAIN r.findings : ~r.findings[i].passed}),
              !.critical_count = r.critical_count + FailedWith(r.findings, {"CRITICAL"}),
              !.high_count = r.high_count + FailedWith(r.findings, {"HIGH"}),
              !.medium_count = r.medium_count + FailedWith(r.findings, {"MEDIUM"}),
              !.low_count = r.low_count + FailedWith(r.findings, {"LOW", "WARNING"}),
              !.compliant = Compliant(r.critical_count + FailedWith(r.findings, {"CRITICAL"}),
                                      r.high_count + FailedWith(r.findings, {"HIGH"}))]

\* ComplianceReport.calculate_summary
CalculateSummary(r) ==
    LET total_checks == Len(r.findings)
        passed_checks == Cardinality({i \in DOMAIN r.findings : r.findings[i].passed})
        critical_count == FailedWith(r.findings, {"CRITICAL"})
        high_count == FailedWith(r.findings, {"HIGH"})
    IN  [r EXCEPT !.total_checks = total_checks,
                  !.passed_checks = passed_checks,
                  !.failed_checks = total_checks - passed_checks,
                  !.critical_count = critical_count,
                  !.high_count = high_count,
                  !.medium_count = FailedWith(r.findings, {"MEDIUM"}),
                  !.low_count = FailedWith(r.findings, {"LOW", "WARNING"}),
                  !.compliant = Compliant(critical_count, high_count)]

\* -------------------------------------------------------------------- state

VARIABLES
    today,            \* date.today(), the wall-clock date
    doc,              \* the data yaml.safe_load returned for the rules file
    engine,           \* "none", "constructed", or the exception __init__ raised
    rules,            \* RulesEngine.rules
    global_settings,  \* RulesEngine.global_settings
    version,          \* RulesEngine.version
    context,          \* RulesEngine.context, shared by every evaluation
    proj,             \* proj[e]: the project passed to evaluate_project call e
    pc,               \* pc[e]: where call e is
    ri,               \* ri[e]: index of the rule the loop of call e is at
    report,           \* report[e]: the report call e builds and returns
    exc,              \* exc[e]: the exception call e raised, "" for none
    nextId,           \* source of uuid4 values
    matcher,          \* a call of RulesEngine._fuzzy_match: arguments and result
    collector         \* a run of EvidenceCollector: files, archive and verdict

vars == <<today, doc, engine, rules, global_settings, version, context, proj, pc, ri,
          report, exc, nextId, matcher, collector>>

\* the utilities' calls, which evaluate_project and __init__ leave alone
utilVars == <<matcher, collector>>

Evals == 1..MaxEvals

engineVars == <<doc, engine, rules, global_settings, version>>

\* ------------------------------------------------------ RulesEngine.__init__

\* __init__ with _load_rules: iterating data that is not iterable raises
\* TypeError; anything else constructs the engine.
Construct ==
    /\ engine = "none"
    /\ IF Iterable(doc)
       THEN /\ engine' = "constructed"
            /\ rules' = LoadedRules(doc)
            /\ global_settings' = LoadedGlobalSettings(doc)
            /\ version' = LoadedVersion(doc)
       ELSE /\ engine' = "TypeError"
            /\ UNCHANGED <<rules, global_settings, version>>
    /\ UNCHANGED <<utilVars, today, doc, context, proj, pc, ri, report, exc, nextId>>

\* ------------------------------------------------ RulesEngine.evaluate_project

Finished(e) == pc[e] \in {"returned", "raised"}

\* calls are made one after the other on the one engine
MayStart(e) == \A o \in Evals \ {e} : (o < e /\ Finished(o)) \/ (o > e /\ pc[o] = "idle")

\* a report whose findings list is the one the previous call filled
StartKeepingFindings(e) ==
    /\ engine = "constructed"
    /\ pc[e] = "idle"
    /\ MayStart(e)
    /\ report' = [report EXCEPT
                     ![e] = [NewReport(proj[e], version, nextId, today) EXCEPT
                               !.findings = IF e > 1 /\ pc[e - 1] = "returned"
                                            THEN report[e - 1].findings ELSE <<>>]]
    /\ nextId' = nextId + 1
    /\ context' = [check_date |-> today, project |-> proj[e].id]
    /\ pc' = [pc EXCEPT ![e] = "rules"]
    /\ ri' = [ri EXCEPT ![e] = 1]
    /\ UNCHANGED <<utilVars, today, engineVars, proj, exc>>

\* a call that fills in the end date of a project that has none
StartClosingProject(e) ==
    /\ engine = "constructed"
    /\ pc[e] = "idle"
    /\ MayStart(e)
    /\ report' = [report EXCEPT ![e] = NewReport(proj[e], version, nextId, today)]
    /\ nextId' = nextId + 1
    /\ context' = [check_date |-> today, project |-> proj[e].id]
    /\ pc' = [pc EXCEPT ![e] = "rules"]
    /\ ri' = [ri EXCEPT ![e] = 1]
    /\ proj' = [proj EXCEPT ![e].end_date = Some(today)]
    /\ UNCHANGED <<utilVars, today, engineVars, exc>>

\* lines 174-184: the report is constructed and self.context replaced
Start(e) ==
    /\ engine = "constructed"
    /\ pc[e] = "idle"
    /\ MayStart(e)
    /\ report' = [report EXCEPT ![e] = NewReport(proj[e], version, nextId, today)]
    /\ nextId' = nextId + 1
    /\ context' = [check_date |-> today, project |-> proj[e].id]
    /\ pc' = [pc EXCEPT ![e] = "rules"]
    /\ ri' = [ri EXCEPT ![e] = 1]
    /\ UNCHANGED <<utilVars, today, engineVars, proj, exc>>

AtRule(e) == pc[e] = "rules" /\ ri[e] <= Len(rules)
CurRule(e) == rules[ri[e]]

\* `if not rule.get('enabled', True): continue`
SkipDisabled(e) ==
    /\ AtRule(e)
    /\ ~RuleEnabled(CurRule(e))
    /\ ri' = [ri EXCEPT ![e] = ri[e] + 1]
    /\ UNCHANGED <<utilVars, today, engineVars, context, proj, pc, report, exc, nextId>>

\* the findings a handler created, with the uuid4 values they were given
WithIds(findings, base) ==
    [i \in DOMAIN findings |-> [findings[i] EXCEPT !.finding_id = base + i - 1]]

\* findings put in front of those the report holds
ExtendInFront(r, findings) == [r EXCEPT !.findings = findings \o r.findings]

\* report.findings.extend(findings)
Extend(r, findings) == [r EXCEPT !.findings = r.findings \o findings]

\* lines 191-201 for an enabled rule: the handler runs, and either its findings
\* extend the report or its exception leaves evaluate_project
\* (res is what the handler call did)
Dispatch(e, res) ==
    /\ context' = res.context
    /\ IF res.exc = ""
       THEN /\ report' = [report EXCEPT
                             ![e] = Extend(report[e], WithIds(res.findings, nextId))]
            /\ nextId' = nextId + Len(res.findings)
            /\ ri' = [ri EXCEPT ![e] = ri[e] + 1]
            /\ UNCHANGED <<pc, exc>>
       ELSE /\ pc' = [pc EXCEPT ![e] = "raised"]
            /\ exc' = [exc EXCEPT ![e] = res.exc]
            /\ UNCHANGED <<report, nextId, ri>>
    /\ UNCHANGED <<utilVars, today, engineVars, proj>>

Enabled(e, rule_id) ==
    AtRule(e) /\ RuleEnabled(CurRule(e)) /\ CurRule(e).rule_id = rule_id

EvalEpdValidity(e) ==
    /\ Enabled(e, "epd_validity")
    /\ Dispatch(e, CheckEpdValidity(proj[e], CurRule(e), context, today))
EvalMaterialTraceability(e) ==
    /\ Enabled(e, "material_traceability")
    /\ Dispatch(e, CheckMaterialTraceability(proj[e], CurRule(e), context, today))
EvalNccEmbodiedCarbon(e) ==
    /\ Enabled(e, "ncc_embodied_carbon")
    /\ Dispatch(e, CheckNccEmbodiedCarbon(proj[e], CurRule(e), context, today))
EvalTransportVerification(e) ==
    /\ Enabled(e, "transport_verification")
    /\ Dispatch(e, CheckTransportVerification(proj[e], CurRule(e), context, today))
EvalWasteCircularity(e) ==
    /\ Enabled(e, "waste_circularity")
    /\ Dispatch(e, CheckWasteCircularity(proj[e], CurRule(e), context, today))
EvalDataQuality(e) ==
    /\ Enabled(e, "data_quality")
    /\ Dispatch(e, CheckDataQuality(proj[e], CurRule(e), context, today))
EvalTemporalValidity(e) ==
    /\ Enabled(e, "temporal_validity")
    /\ Dispatch(e, CheckTemporalValidity(proj[e], CurRule(e), context, today))
EvalScopeBoundary(e) ==
    /\ Enabled(e, "scope_boundary")
    /\ Dispatch(e, CheckScopeBoundary(proj[e], CurRule(e), context, today))
EvalDoubleCounting(e) ==
    /\ Enabled(e, "double_counting")
    /\ Dispatch(e, CheckDoubleCounting(proj[e], CurRule(e), context, today))
EvalEvidenceLinkage(e) ==
    /\ Enabled(e, "evidence_linkage")
    /\ Dispatch(e, CheckEvidenceLinkage(proj[e], CurRule(e), context, today))

\* no attribute _check_<rule_id>: the generic handler
EvalGeneric(e) ==
    /\ AtRule(e) /\ RuleEnabled(CurRule(e)) /\ ~HasHandler(CurRule(e).rule_id)
    /\ Dispatch(e, GenericCheck(proj[e], CurRule(e), context, today))

\* lines 204-206, after the loop: report.calculate_summary(); return report
Summarize(e) ==
    /\ pc[e] = "rules"
    /\ ri[e] > Len(rules)
    /\ report' = [report EXCEPT ![e] = CalculateSummary(report[e])]
    /\ pc' = [pc EXCEPT ![e] = "returned"]
    /\ UNCHANGED <<utilVars, today, engineVars, context, proj, ri, exc, nextId>>

\* midnight passes
Tick ==
    /\ today < MaxTicks
    /\ today' = today + 1
    /\ UNCHANGED <<utilVars, engineVars, context, proj, pc, ri, report, exc, nextId>>

Evaluate(e) ==
    \/ Start(e)
    \/ SkipDisabled(e)
    \/ EvalEpdValidity(e)
    \/ EvalMaterialTraceability(e)
    \/ EvalNccEmbodiedCarbon(e)
    \/ EvalTransportVerification(e)
    \/ EvalWasteCircularity(e)
    \/ EvalDataQuality(e)
    \/ EvalTemporalValidity(e)
    \/ EvalScopeBoundary(e)
    \/ EvalDoubleCounting(e)
    \/ EvalEvidenceLinkage(e)
    \/ EvalGeneric(e)
    \/ Summarize(e)

\* lines 191-199: handler_name = f"_check_{rule_id}", the generic check when the
\* engine has no such method
RunHandler(project, rule, ctx, now) ==
    CASE rule.rule_id = "epd_validity" -> CheckEpdValidity(project, rule, ctx, now)
      [] rule.rule_id = "material_traceability" ->
            CheckMaterialTraceability(project, rule, ctx, now)
      [] rule.rule_id = "ncc_embodied_carbon" ->
            CheckNccEmbodiedCarbon(project, rule, ctx, now)
      [] rule.rule_id = "transport_verification" ->
            CheckTransportVerification(project, rule, ctx, now)
      [] rule.rule_id = "waste_circularity" -> CheckWasteCircularity(project, rule, ctx, now)
      [] rule.rule_id = "data_quality" -> CheckDataQuality(project, rule, ctx, now)
      [] rule.rule_id = "temporal_validity" -> CheckTemporalValidity(project, rule, ctx, now)
      [] rule.rule_id = "scope_boundary" -> CheckScopeBoundary(project, rule, ctx, now)
      [] rule.rule_id = "double_counting" -> CheckDoubleCounting(project, rule, ctx, now)
      [] rule.rule_id = "evidence_linkage" -> CheckEvidenceLinkage(project, rule, ctx, now)
      [] OTHER -> GenericCheck(project, rule, ctx, now)

RECURSIVE EvalRules(_, _, _, _, _)

\* the loop after the handler of the first rule of rs has produced res
EvalRulesAfter(project, rs, acc, res, now) ==
    IF res.exc # "" THEN [exc |-> res.exc, findings |-> acc, context |-> res.context]
    ELSE EvalRules(project, Tail(rs), acc \o res.findings, res.context, now)

\* The loop of lines 187-201 run in one day `now` over the rules `rs`, from the
\* findings `acc` and the context `ctx`: the findings collected (finding_id 0)
\* and the exception that ended the loop, "" for none.
EvalRules(project, rs, acc, ctx, now) ==
    IF rs = <<>> THEN Returns(acc, ctx)
    ELSE IF ~RuleEnabled(Head(rs)) THEN EvalRules(project, Tail(rs), acc, ctx, now)
    ELSE EvalRulesAfter(project, rs, acc, RunHandler(project, Head(rs), ctx, now), now)

\* ------------------------------------------------------- inputs: catalogues

RuleNames ==
    [epd_validity |-> "EPD Validity and Certification",
     material_traceability |-> "Material Traceability and Documentation",
     ncc_embodied_carbon |-> "NCC 2022 Embodied Carbon Compliance",
     transport_verification |-> "Transport Distance and Emissions Verification",
     waste_circularity |-> "Waste Reporting and Circularity",
     data_quality |-> "Data Completeness and Quality",
     temporal_validity |-> "Temporal Validity (Timeline Alignment)",
     scope_boundary |-> "Scope Boundary Consistency (GHG Protocol)",
     double_counting |-> "Double-Counting Prevention",
     evidence_linkage |-> "Citation and Evidence Linkage",
     supplier_audit |-> "Supplier Audit Trail"]

\* a rule id of the catalogue for which the engine has no _check_ method
UnregisteredId == "supplier_audit"

CatalogueOrder ==
    <<"epd_validity", "material_traceability", "ncc_embodied_carbon",
      "transport_verification", "waste_circularity", "data_quality",
      "temporal_validity", "scope_boundary", "double_counting", "evidence_linkage",
      "supplier_audit">>

RecognizedSources == <<"EPD Australasia", "International EPD System">>

\* a well-formed rule entry without the optional 'enabled' key
RuleBody(rule_id) ==
    [rule_id |-> rule_id,
     name |-> RuleNames[rule_id],
     conditions |-> [all |-> <<[value |-> <<>>], [value |-> <<>>], [value |-> <<>>],
                               [value |-> <<>>], [value |-> RecognizedSources]>>],
     thresholds |-> [residential |-> 600, commercial |-> 850],
     remediation |-> [action |-> "Correct the record", responsible_party |-> "Owner",
                      resources |-> <<"https://example.org/guide">>]]

\* the entry as the document writes it: 'enabled' absent, true or false
RuleEntry(rule_id, enabled) ==
    [isdict |-> TRUE,
     d |-> IF enabled = "absent" THEN RuleBody(rule_id)
           ELSE DictSet(RuleBody(rule_id), "enabled", enabled = "true")]

VersionEntry == [isdict |-> TRUE, d |-> [version |-> "2.0.0"]]
SettingsEntry == [isdict |-> TRUE, d |-> [global_settings |-> [strict |-> TRUE]]]

\* a catalogue document: a version entry, a settings entry and the rules in
\* `order`, those of `off` disabled and those of `explicit` with enabled: true
CatalogueDoc(order, off, explicit) ==
    [kind |-> "list",
     items |-> <<VersionEntry, SettingsEntry>>
               \o [i \in DOMAIN order |->
                     RuleEntry(order[i],
                               IF order[i] \in off THEN "false"
                               ELSE IF order[i] \in explicit THEN "true"
                               ELSE "absent")]]

Catalogues ==
    {CatalogueDoc(CatalogueOrder, {}, {"epd_validity", "data_quality"}),
     CatalogueDoc([i \in DOMAIN CatalogueOrder |->
                     CatalogueOrder[Len(CatalogueOrder) + 1 - i]],
                  {"ncc_embodied_carbon", "material_traceability", "scope_boundary"}, {}),
     CatalogueDoc(CatalogueOrder, {"supplier_audit", "epd_validity"},
                  {"ncc_embodied_carbon"})}

\* ---------------------------------------------------------- inputs: projects

Evidence(type, uri, hash) ==
    [type |-> type, uri |-> uri, filename |-> None, hash |-> hash]

Stages(a1_a3, a4, a5, c1_c4, d) ==
    [a1_a3 |-> a1_a3, a4 |-> a4, a5 |-> a5, c1_c4 |-> c1_c4, d |-> d]

Epd(id, stages, valid_until, epd_type, is_verified, evidence) ==
    [id |-> id, epd_number |-> id, product_name |-> "Concrete",
     lca_stages |-> stages, valid_from |-> -50, valid_until |-> valid_until,
     is_verified |-> is_verified, epd_type |-> epd_type,
     source |-> "EPD Australasia", evidence |-> evidence]

Location(country) == [country |-> country, city |-> Some("Sydney")]

BaseProject ==
    [id |-> "project-1", project_name |-> "Tower", project_type |-> "commercial",
     start_date |-> -100, end_date |-> Some(200), gross_floor_area_m2 |-> Some(1),
     bim_models |-> <<>>, epds |-> <<>>, invoices |-> <<>>, meters |-> <<>>,
     transport_logs |-> <<>>, waste_streams |-> <<>>]

GoodEvidence == <<Evidence("epd", "/epd.pdf", Some("abc123"))>>

\* EPDs whose stage total is t: every stage non-zero, A4 equal to zero, and
\* with the optional C1-C4 and D stages
NccTotals == {600, 601, 850, 851}
NccEpds ==
    UNION {{Epd("epd-1", Stages(t - 2, 1, 1, None, None), 100, "product-specific", TRUE,
                GoodEvidence),
            Epd("epd-1", Stages(t - 1, 0, 1, None, None), 100, "product-specific", TRUE,
                GoodEvidence),
            Epd("epd-1", Stages(t - 3, 1, 1, Some(2), Some(-1)), 100, "generic", FALSE,
                <<>>)} : t \in NccTotals}

HalfEpd(id) ==
    Epd(id, Stages(848, 1, 1, None, None), 0, "industry-average", FALSE, GoodEvidence)

Leg(id, to, distance_km, emissions_factor, load_factor) ==
    [id |-> id, origin |-> Location("Australia"), destination |-> Location(to),
     distance_km |-> distance_km, transport_mode |-> "road", cargo_weight_kg |-> 1,
     load_factor |-> load_factor, emissions_factor |-> emissions_factor]

TransportLog(legs) == [legs |-> legs, evidence |-> <<>>]

Waste(id, waste_type, quantity, unit, facility, total_emissions, pct, evidence) ==
    [id |-> id, waste_type |-> waste_type, material_description |-> "Offcuts",
     quantity |-> quantity, unit |-> unit, disposal_facility |-> facility,
     total_emissions |-> total_emissions, recycled_content_pct |-> pct,
     evidence |-> evidence]

ProjectsNcc ==
    {[BaseProject EXCEPT !.project_type = ty, !.epds = es] :
        ty \in {"commercial", "residential", "industrial"},
        es \in {<<>>} \cup {<<e>> : e \in NccEpds}}
    \cup
    {[BaseProject EXCEPT !.gross_floor_area_m2 = g, !.epds = es] :
        g \in {None, Some(0), Some(2)},
        es \in {<<>>, <<HalfEpd("epd-1")>>, <<HalfEpd("epd-1"), HalfEpd("epd-2")>>}}
    \cup
    {[BaseProject EXCEPT
        !.epds = <<Epd("epd-1", Stages(847, 1, 1, None, None), 100, "generic", TRUE, <<>>)>>,
        !.transport_logs = <<TransportLog(<<Leg("leg-1", "Australia", 50, ef, 100)>>)>>,
        !.waste_streams = <<Waste("waste-1", "landfill", 1, "tonne", "Tip", em, None, <<>>)>>] :
        ef \in {None, Some(0), Some(2), Some(3)}, em \in {None, Some(0), Some(1)}}

Element(id, material_name, quantity, unit) ==
    [id |-> id, ifc_type |-> "IfcWall", name |-> None, quantity |-> quantity,
     unit |-> unit, material_name |-> material_name, evidence |-> <<>>]

Line(line_number, product_name, quantity, unit, epd_id) ==
    [line_number |-> line_number, product_name |-> product_name, quantity |-> quantity,
     unit |-> unit, epd_id |-> epd_id, metadata |-> EmptyDict]

Invoice(id, supplier_abn, invoice_date, line_items, evidence) ==
    [id |-> id, invoice_number |-> id, supplier_abn |-> supplier_abn,
     invoice_date |-> invoice_date, line_items |-> line_items,
     delivery_location |-> None, evidence |-> evidence]

\* one element "Ab" of 110 m3 against one invoice line
ProjectsInvoices ==
    {[BaseProject EXCEPT
        !.bim_models = <<[elements |-> <<Element("el-1", <<"A", "b">>, 110, "m3")>>]>>,
        !.invoices = <<Invoice("inv-1", Some("51824753556"), 10,
                               <<Line(1, name, q, u, None)>>, <<>>)>>] :
        name \in {<<"a", "b", " ">>, <<"b", "b">>},
        q \in {0, 100, 99},
        u \in {"m3", "kg"}}

Meter(meter_id, start_date) == [meter_id |-> meter_id, start_date |-> start_date]

ProjectsMeters ==
    {[BaseProject EXCEPT !.end_date = end, !.meters = ms] :
        end \in {None, Some(200)},
        ms \in {<<>>, <<Meter("m-1", 100)>>, <<Meter("m-1", 300)>>,
                <<Meter("m-1", 300), Meter("m-2", 100)>>}}

\* projects with every collection filled, passing and failing entities mixed
RichProject(gfa, inv2_date) ==
    [BaseProject EXCEPT
        !.gross_floor_area_m2 = gfa,
        !.epds = <<Epd("epd-1", Stages(300, 30, 20, None, None), 100, "product-specific",
                       TRUE, GoodEvidence),
                   Epd("epd-2", Stages(300, 30, 20, None, None), -1, "industry-average",
                       FALSE, <<Evidence("epd", "/old.pdf", None)>>)>>,
        !.invoices = <<Invoice("inv-1", Some("51824753556"), 10,
                               <<Line(1, <<"a", "b">>, 100, "m3", Some("epd-1")),
                                 Line(2, <<"b", "a">>, 5, "kg", Some("epd-9"))>>,
                               <<Evidence("invoice", "/inv-1.pdf", Some("ffee"))>>),
                       Invoice("inv-2", None, inv2_date,
                               <<Line(1, <<"b", "b">>, 7, "kg", Some("epd-2"))>>, <<>>)>>,
        !.bim_models = <<[elements |-> <<Element("el-1", <<"A", "b">>, 110, "m3"),
                                         Element("el-2", <<"a", "a">>, 3, "m3")>>]>>,
        !.meters = <<Meter("m-1", 300)>>,
        !.transport_logs = <<TransportLog(<<Leg("leg-1", "Australia", 10000, Some(50), 100),
                                            Leg("leg-2", "New Zealand", 4000, None, 90)>>)>>,
        !.waste_streams = <<Waste("waste-1", "recycled", 7, "tonne", "Recycler", None,
                                  Some(10), <<Evidence("certification", "/c.pdf", None)>>),
                            Waste("waste-2", "hazardous", 3000, "kg", "", Some(4), None,
                                  <<>>)>>]

ProjectsRich == {RichProject(gfa, d) : gfa \in {None, Some(2)}, d \in {10, 500}}

\* projects without a gross floor area whose other records are incomplete
ProjectsNoArea ==
    {[BaseProject EXCEPT !.gross_floor_area_m2 = None, !.end_date = None,
                         !.meters = <<Meter("m-1", 100)>>],
     [BaseProject EXCEPT
        !.gross_floor_area_m2 = None,
        !.bim_models = <<[elements |-> <<Element("el-1", <<"a", "b">>, 110, "m3")>>]>>,
        !.invoices = <<Invoice("inv-1", Some("51824753556"), 10,
                               <<Line(1, <<"a", "b">>, 0, "m3", None)>>, <<>>)>>]}

Projects ==
    ProjectsNcc \cup ProjectsInvoices \cup ProjectsMeters \cup ProjectsRich
    \cup ProjectsNoArea

\* ------------------------------------------- inputs: one check at a time

\* EPDs around the validity bounds, of each type, verified or not, with and
\* without a registration number, from a recognized source or not; alone and
\* in pairs
EpdCases ==
    LET variants ==
            {[Epd("epd-1", Stages(1, 1, 1, None, None), w[2], ty, v, <<>>) EXCEPT
                 !.valid_from = w[1], !.epd_number = num, !.source = src] :
                w \in {<<-50, -1>>, <<-50, 0>>, <<0, 100>>, <<1, 100>>, <<2, 100>>},
                ty \in {"product-specific", "generic"},
                v \in BOOLEAN,
                num \in {"", "S-P-01"},
                src \in {"EPD Australasia", "Unlisted Registry"}}
        second == Epd("epd-2", Stages(1, 1, 1, None, None), -1, "industry-average",
                      FALSE, GoodEvidence)
    IN  {[doc |-> CatalogueDoc(<<"epd_validity">>, {}, {}),
          project |-> [BaseProject EXCEPT !.epds = es]] :
            es \in {<<x>> : x \in variants}
                   \cup {<<x, second>> : x \in {y \in variants : y.epd_type = "generic"
                                                             /\ ~y.is_verified}}
                   \cup {<<second, second, HalfEpd("epd-3")>>}}

\* one element "Abab" of 110 m3 against one invoice line (named the same up to
\* case and blanks, nearly the same, or differently; of 0, 99 or 100 units; with
\* an EPD, an emissions factor or neither), and against two lines of one name
TraceCases ==
    LET element == Element("el-1", <<"A", "b", "a", "b">>, 110, "m3")
        line(n, name, q, u, link) ==
            [Line(n, name, q, u, IF link = "epd" THEN Some("epd-1") ELSE None) EXCEPT
                !.metadata = IF link = "factor" THEN [emissions_factor |-> 1]
                             ELSE EmptyDict]
        good == line(1, <<"a", "b", "a", "b">>, 100, "m3", "epd")
        bad == line(2, <<" ", "A", "B", "A", "B">>, 100, "m3", "none")
        single ==
            {<<Invoice("inv-1", abn, 10, <<line(1, name, q, u, link)>>, <<>>)>> :
                abn \in {None, Some("51824753556")},
                name \in {<<"a", "b", "a", "b", " ">>, <<"a", "b", "a", "b", "b", "b">>,
                          <<"b", "b">>},
                q \in {0, 99, 100},
                u \in {"m3", "kg"},
                link \in {"epd", "factor", "none"}}
        shared ==
            {<<Invoice("inv-1", Some("51824753556"), 10, <<good, bad>>, <<>>)>>,
             <<Invoice("inv-1", Some("51824753556"), 10, <<bad>>, <<>>),
               Invoice("inv-2", Some("51824753556"), 10, <<good>>, <<>>)>>}
    IN  {[doc |-> CatalogueDoc(<<"material_traceability">>, {}, {}),
          project |-> [BaseProject EXCEPT
                          !.bim_models = <<[elements |-> <<element>>]>>,
                          !.invoices = inv]] : inv \in single \cup shared}
        \cup {[doc |-> CatalogueDoc(<<"material_traceability">>, {}, {}),
               project |-> [BaseProject EXCEPT
                  !.bim_models = <<[elements |-> <<element>>],
                                   [elements |-> <<Element("el-2", <<"b">>, 1, "kg"),
                                                   element>>]>>,
                  !.invoices = <<Invoice("inv-1", Some("51824753556"), 10,
                                         <<good>>, <<>>)>>]]}

\* one leg from Australia around each limit: within the country or abroad, at
\* and just over 5000 and 20000 km, with no factor or one of 0, 0.01, 2.0 or
\* 2.01, loaded to 0.29, 0.3, 1.0 or 1.01; and three legs over two logs
LegCases ==
    LET single ==
            {<<TransportLog(<<Leg("leg-1", to, d, ef, lf)>>)>> :
                to \in {"Australia", "New Zealand"},
                d \in {5000, 5001, 20000, 20001},
                ef \in {None, Some(0), Some(1), Some(200), Some(201)},
                lf \in {29, 30, 100, 101}}
        several ==
            {<<TransportLog(<<Leg("leg-1", "Australia", 10000, Some(50), 100),
                              Leg("leg-2", "New Zealand", 10000, None, 30)>>),
               TransportLog(<<Leg("leg-3", "Australia", 50, Some(200), 101)>>)>>}
    IN  {[doc |-> CatalogueDoc(<<"transport_verification">>, {}, {}),
          project |-> [BaseProject EXCEPT !.transport_logs = logs]] :
            logs \in single \cup several}

\* one stream of each classification, with and without a facility, a recycled
\* content claim and evidence of each type; and two streams, one diverted and
\* one not, whose masses sit around 70% diverted, in kg, in tonnes or both zero
WasteCases ==
    LET receipt == Evidence("waste_receipt", "/receipt.pdf", None)
        cert == Evidence("certification", "/cert.pdf", None)
        single ==
            {<<Waste("waste-1", ty, 1, "kg", fac, None, pct, ev)>> :
                ty \in {"landfill", "hazardous", "recycled"},
                fac \in {"", "Tip"},
                pct \in {None, Some(0), Some(1)},
                ev \in {<<>>, <<receipt>>, <<cert>>, <<cert, receipt>>}}
        pairs ==
            {<<Waste("waste-1", ty, d[1], d[2], "Recycler", None, None, <<>>),
               Waste("waste-2", "landfill", l[1], l[2], "Tip", None, None, <<>>)>> :
                ty \in {"recycled", "reused", "incinerated"},
                d \in {<<7, "tonne">>, <<6999, "kg">>, <<0, "kg">>},
                l \in {<<3, "tonne">>, <<2999, "kg">>, <<3001, "kg">>, <<0, "tonne">>}}
    IN  {[doc |-> CatalogueDoc(<<"waste_circularity">>, {}, {}),
          project |-> [BaseProject EXCEPT !.waste_streams = ws]] :
            ws \in single \cup pairs}

\* invoices for the two checks that read them. Coverage: none, one or five
\* invoices of which three, four or all carry evidence. Dates: one invoice
\* around each end of the project period, with or without a project end date,
\* whose line links no EPD, one valid throughout, one valid from day 11 to 40,
\* one valid on day 10 only, or one the project does not hold
InvoiceCases ==
    LET paper == <<Evidence("invoice", "/invoice.pdf", None)>>
        window(id, from, until) ==
            [Epd(id, Stages(1, 1, 1, None, None), until, "generic", TRUE, <<>>) EXCEPT
                !.valid_from = from]
        epds == <<window("epd-1", -200, 300), window("epd-2", 11, 40),
                  window("epd-3", 10, 10)>>
        plain(n, ev) == Invoice(n, None, 10, <<>>, ev)
        covered ==
            {<<>>, <<plain("inv-1", <<>>)>>, <<plain("inv-1", paper)>>}
            \cup {[i \in 1..5 |-> plain("inv", IF i \in with THEN paper ELSE <<>>)] :
                     with \in {{1, 2, 3, 4, 5}, {1, 2, 4, 5}, {2, 3, 4}}}
        dated ==
            {<<Invoice("inv-1", None, d, <<Line(1, <<"a">>, 1, "kg", link)>>, <<>>)>> :
                d \in {-131, -130, 10, 30, 31, 32, 230, 231},
                link \in {None, Some("epd-1"), Some("epd-2"), Some("epd-3"),
                          Some("epd-9")}}
            \cup {<<Invoice("inv-1", None, 10,
                            <<Line(1, <<"a">>, 1, "kg", Some("epd-1")),
                              Line(2, <<"b">>, 1, "kg", Some("epd-2"))>>, <<>>),
                    Invoice("inv-2", None, 30,
                            <<Line(1, <<"a">>, 1, "kg", Some("epd-2"))>>, paper)>>}
    IN  {[doc |-> CatalogueDoc(<<"data_quality", "temporal_validity">>, {}, {}),
          project |-> [BaseProject EXCEPT !.end_date = end, !.epds = epds,
                                          !.invoices = inv]] :
            end \in {None, Some(200)}, inv \in covered \cup dated}

\* projects with and without an EPD, a transport log and an end date, and with
\* no meter, one starting just before, on or just after day 200, or three
ScopeCases ==
    {[doc |-> CatalogueDoc(<<"scope_boundary">>, {}, {}),
      project |-> [BaseProject EXCEPT !.end_date = end, !.epds = es,
                                      !.transport_logs = logs, !.meters = ms]] :
        end \in {None, Some(200)},
        es \in {<<>>, <<HalfEpd("epd-1")>>},
        logs \in {<<>>, <<TransportLog(<<>>)>>},
        ms \in {<<>>, <<Meter("m-1", 199)>>, <<Meter("m-1", 200)>>,
                <<Meter("m-1", 201)>>,
                <<Meter("m-1", 100), Meter("m-2", 300), Meter("m-3", 150)>>}}

\* up to two elements and up to two invoice lines named "ab" (up to case and
\* blanks) or "b": a name in one source only, once or twice, and in both
DuplicateCases ==
    LET el(n, name) == Element(n, name, 1, "kg")
        ln(n, name) == Line(n, name, 1, "kg", None)
        elements ==
            {<<>>, <<el("el-1", <<"A", "b">>)>>,
             <<el("el-1", <<"A", "b">>), el("el-2", <<"a", "b", " ">>)>>,
             <<el("el-1", <<"A", "b">>), el("el-2", <<"b">>)>>}
        lines ==
            {<<>>, <<ln(1, <<" ", "a", "b">>)>>, <<ln(1, <<"b">>)>>,
             <<ln(1, <<"a", "b">>), ln(2, <<"A", "B">>)>>,
             <<ln(1, <<"a", "b">>), ln(2, <<"b">>)>>}
    IN  {[doc |-> CatalogueDoc(<<"double_counting">>, {}, {}),
          project |-> [BaseProject EXCEPT
                          !.bim_models = <<[elements |-> els]>>,
                          !.invoices = IF ls = <<>> THEN <<>>
                                       ELSE <<Invoice("inv-1", None, 10, ls, <<>>)>>]] :
            els \in elements, ls \in lines}

\* EPD "epd-1" with no, one or two evidence items, each with a hash, an empty
\* hash or none, alone or beside a documented "epd-2"; and an invoice of no,
\* one or two lines that link nothing, "epd-1" or an EPD the project lacks
LinkCases ==
    LET item(n, h) == Evidence("epd", n, h)
        hashes == {None, Some(""), Some("abc123")}
        evidence ==
            {<<>>} \cup {<<item("/a.pdf", h)>> : h \in hashes}
            \cup {<<item("/a.pdf", h1), item("/b.pdf", h2)>> : h1, h2 \in hashes}
        epd(id, ev) == Epd(id, Stages(1, 1, 1, None, None), 100, "generic", TRUE, ev)
        links == {None, Some("epd-1"), Some("epd-9")}
        lines ==
            {<<>>} \cup {<<Line(1, <<"a">>, 1, "kg", l)>> : l \in links}
            \cup {<<Line(1, <<"a">>, 1, "kg", l1), Line(2, <<"b">>, 1, "kg", l2)>> :
                     l1, l2 \in links}
        documented ==
            {<<epd("epd-1", ev)>> : ev \in evidence}
            \cup {<<epd("epd-1", ev), epd("epd-2", GoodEvidence)>> :
                     ev \in {<<>>, <<item("/a.pdf", None), item("/b.pdf", None)>>}}
        linked ==
            {<<Invoice("inv-1", None, 10, ls, <<>>)>> : ls \in lines}
            \cup {<<Invoice("inv-1", None, 10, <<Line(1, <<"a">>, 1, "kg", Some("epd-9"))>>,
                            <<>>),
                    Invoice("inv-2", None, 10, <<Line(1, <<"a">>, 1, "kg", Some("epd-8"))>>,
                            <<>>)>>}
    IN  {[doc |-> CatalogueDoc(<<"evidence_linkage">>, {}, {}),
          project |-> [BaseProject EXCEPT !.epds = es]] : es \in documented}
        \cup {[doc |-> CatalogueDoc(<<"evidence_linkage">>, {}, {}),
               project |-> [BaseProject EXCEPT !.epds = es, !.invoices = inv]] :
                 es \in {<<>>, <<epd("epd-1", GoodEvidence)>>}, inv \in linked}

\* --------------------------------------------- inputs: documents to load

\* entries of a rules document: a scalar, version and settings entries, rule
\* entries, a mapping that describes a rule but has no rule_id, an empty mapping
NotADict == [isdict |-> FALSE, d |-> EmptyDict]
NamelessEntry ==
    [isdict |-> TRUE,
     d |-> [name |-> "Rule without identifier", enabled |-> TRUE,
            remediation |-> [action |-> "Correct the record",
                             responsible_party |-> "Owner", resources |-> <<>>]]]

DocEntries ==
    {NotADict, VersionEntry, [isdict |-> TRUE, d |-> [version |-> "3.1.0"]],
     SettingsEntry, NamelessEntry, [isdict |-> TRUE, d |-> EmptyDict],
     RuleEntry("data_quality", "absent"),
     RuleEntry(UnregisteredId, "false")}

\* what yaml.safe_load can return: lists of entries; a mapping and a string,
\* which iterate as scalars; null (an empty file) and a number
LoadDocs ==
    {[kind |-> "list", items |-> items] :
        items \in UNION {[1..n -> DocEntries] : n \in 0..MaxDocLen}}
    \cup {[kind |-> "mapping", items |-> <<NotADict, NotADict>>],
          [kind |-> "str", items |-> <<NotADict, NotADict, NotADict>>],
          [kind |-> "null", items |-> <<>>],
          [kind |-> "int", items |-> <<>>]}

\* ------------------------------------------- inputs: findings to summarise

Severities == {"CRITICAL", "HIGH", "MEDIUM", "LOW", "INFO", "WARNING"}

SomeFindings ==
    {Finding("rule", <<"Rule">>, sev, passed, <<>>, None, "project", <<>>,
             [action |-> "Act", responsible_party |-> "Owner", resources |-> <<>>],
             EmptyDict) : sev \in Severities, passed \in BOOLEAN}

FindingLists == UNION {[1..n -> SomeFindings] : n \in 0..MaxFindings}

\* ----------------------------------------------------------- specifications

\* the state once RulesEngine(rules_path) has returned for a catalogue document
Constructed(d) ==
    /\ doc = d
    /\ engine = "constructed"
    /\ rules = LoadedRules(d)
    /\ global_settings = LoadedGlobalSettings(d)
    /\ version = LoadedVersion(d)
    /\ context = EmptyDict

\* no utility is in use
NoUtility == matcher = <<>> /\ collector = <<>>

NoCalls ==
    /\ NoUtility
    /\ pc = [e \in Evals |-> "idle"]
    /\ ri = [e \in Evals |-> 1]
    /\ report = [e \in Evals |-> <<>>]
    /\ exc = [e \in Evals |-> ""]
    /\ nextId = 1

\* An engine constructed from a well-formed catalogue, and one project that
\* is passed to every call.
Init ==
    /\ today = 0
    /\ \E d \in Catalogues : Constructed(d)
    /\ \E p \in Projects : proj = [e \in Evals |-> p]
    /\ NoCalls

Next == (\E e \in Evals : Evaluate(e)) \/ Tick

Spec == Init /\ [][Next]_vars

\* RulesEngine(rules_path) for any document the rules file can parse to
InitLoad ==
    /\ today = 0
    /\ doc \in LoadDocs
    /\ engine = "none"
    /\ rules = <<>>
    /\ global_settings = EmptyDict
    /\ version = ""
    /\ context = EmptyDict
    /\ proj = [e \in Evals |-> BaseProject]
    /\ NoCalls

NextLoad == Construct

SpecLoad == InitLoad /\ [][NextLoad]_vars

\* ComplianceReport.calculate_summary called on reports a caller has filled
\* with findings of any severity and outcome
SummarizeReport(e) ==
    /\ pc[e] = "filled"
    /\ report' = [report EXCEPT ![e] = CalculateSummary(report[e])]
    /\ pc' = [pc EXCEPT ![e] = "summed"]
    /\ UNCHANGED <<utilVars, today, engineVars, context, proj, ri, exc, nextId>>

InitSummary ==
    /\ today = 0
    /\ Constructed(CatalogueDoc(CatalogueOrder, {}, {}))
    /\ proj = [e \in Evals |-> BaseProject]
    /\ pc = [e \in Evals |-> "filled"]
    /\ ri = [e \in Evals |-> 1]
    /\ \E fs \in FindingLists :
          report = [e \in Evals |->
                      [NewReport(BaseProject, version, e, today) EXCEPT !.findings = fs]]
    /\ exc = [e \in Evals |-> ""]
    /\ nextId = MaxEvals + 1
    /\ NoUtility

NextSummary == \E e \in Evals : SummarizeReport(e)

SpecSummary == InitSummary /\ [][NextSummary]_vars

\* calculate_summary called again on a report it has summarised
SummarizeAgain(e) ==
    /\ pc[e] = "summed"
    /\ report' = [report EXCEPT ![e] = CalculateSummary(report[e])]
    /\ pc' = [pc EXCEPT ![e] = "summed again"]
    /\ UNCHANGED <<utilVars, today, engineVars, context, proj, ri, exc, nextId>>

\* reports a caller has filled with findings and whose summary fields hold
\* their defaults or values left from elsewhere
InitResummary ==
    /\ today = 0
    /\ Constructed(CatalogueDoc(CatalogueOrder, {}, {}))
    /\ proj = [e \in Evals |-> BaseProject]
    /\ pc = [e \in Evals |-> "filled"]
    /\ ri = [e \in Evals |-> 1]
    /\ \E fs \in FindingLists : \E stale \in {0, 3} :
          report = [e \in Evals |->
                      [NewReport(BaseProject, version, e, today) EXCEPT
                          !.findings = fs,
                          !.total_checks = stale, !.passed_checks = stale,
                          !.failed_checks = stale, !.critical_count = stale,
                          !.high_count = stale, !.medium_count = stale,
                          !.low_count = stale, !.compliant = (stale = 3)]]
    /\ exc = [e \in Evals |-> ""]
    /\ nextId = MaxEvals + 1
    /\ NoUtility

NextResummary == \E e \in Evals : SummarizeReport(e) \/ SummarizeAgain(e)

SpecResummary == InitResummary /\ [][NextResummary]_vars

\* evaluate_project called from two threads on the one engine: the second call
\* may start while the first is between two rules, and both write and read
\* the engine's one context
StartInterleaved(e) ==
    /\ engine = "constructed"
    /\ pc[e] = "idle"
    /\ report' = [report EXCEPT ![e] = NewReport(proj[e], version, nextId, today)]
    /\ nextId' = nextId + 1
    /\ context' = [check_date |-> today, project |-> proj[e].id]
    /\ pc' = [pc EXCEPT ![e] = "rules"]
    /\ ri' = [ri EXCEPT ![e] = 1]
    /\ UNCHANGED <<utilVars, today, engineVars, proj, exc>>

\* projects for two interleaved calls: a plain one, and one whose only EPD is
\* valid until day 0
InterleavedProjects ==
    {BaseProject,
     [BaseProject EXCEPT
         !.id = "project-2",
         !.epds = <<Epd("epd-1", Stages(1, 1, 1, None, None), 0, "generic", TRUE,
                        GoodEvidence)>>]}

\* the catalogue holds the two checks that use the context, in either order,
\* and a disabled rule
InitInterleaved ==
    /\ today = 0
    /\ \E order \in {<<"epd_validity", "ncc_embodied_carbon", "data_quality">>,
                      <<"data_quality", "ncc_embodied_carbon", "epd_validity">>} :
          Constructed(CatalogueDoc(order, {"data_quality"}, {}))
    /\ proj \in [Evals -> InterleavedProjects]
    /\ NoCalls

\* the steps of evaluate_project such a catalogue allows, taken by either call
\* in any order
NextInterleaved ==
    \/ \E e \in Evals :
          \/ StartInterleaved(e)
          \/ SkipDisabled(e)
          \/ EvalEpdValidity(e)
          \/ EvalNccEmbodiedCarbon(e)
          \/ Summarize(e)
    \/ Tick

SpecInterleaved == InitInterleaved /\ [][NextInterleaved]_vars

\* RulesEngine._fuzzy_match called on its own: a query "ab" (in either case, or
\* empty) against up to MaxCandidates candidates at ratio 1 ("AB"), 0.8 ("abb",
\* "aab"), 2/3 ("abbb"), 0.5 ("ba") and 0 ("c", ""), with thresholds 0, 0.8, 1
MaxCandidates == 3

MatchCandidates ==
    {<<"A", "B">>, <<"a", "b", "b">>, <<"a", "a", "b">>, <<"a", "b", "b", "b">>,
     <<"b", "a">>, <<"c">>, <<>>}

MatchCalls ==
    {[query |-> q, candidates |-> cs, threshold |-> t, called |-> FALSE, result |-> None] :
        q \in {<<"a", "b">>, <<"A", "b">>, <<>>},
        cs \in UNION {[1..n -> MatchCandidates] : n \in 0..MaxCandidates},
        t \in {<<0, 1>>, <<4, 5>>, <<1, 1>>}}

CallFuzzyMatch ==
    /\ matcher # <<>>
    /\ ~matcher.called
    /\ matcher' = [matcher EXCEPT
                      !.called = TRUE,
                      !.result = FuzzyMatch(matcher.query, matcher.candidates,
                                            matcher.threshold)]
    /\ UNCHANGED <<collector, today, engineVars, context, proj, pc, ri, report, exc,
                   nextId>>

InitMatch ==
    /\ today = 0
    /\ Constructed(CatalogueDoc(CatalogueOrder, {}, {}))
    /\ proj = [e \in Evals |-> BaseProject]
    /\ pc = [e \in Evals |-> "idle"]
    /\ ri = [e \in Evals |-> 1]
    /\ report = [e \in Evals |-> <<>>]
    /\ exc = [e \in Evals |-> ""]
    /\ nextId = 1
    /\ matcher \in MatchCalls
    /\ collector = <<>>

NextMatch == CallFuzzyMatch

SpecMatch == InitMatch /\ [][NextMatch]_vars

\* ------------------------------------------------- the evidence collector
\* evidence/manifest_generator.py: collect_project_evidence writes an archive
\* of the local evidence files with a manifest, verify_manifest re-reads it.

MaxEvidence == 2

\* The local files of the runs, by path: their bytes.
LocalFiles ==
    ("/a/report.pdf" :> <<"a">>) @@ ("/b/report.pdf" :> <<"c", "c">>)
        @@ ("/c/report.pdf" :> <<"a">>) @@ ("/a/cert.pdf" :> <<"b">>)

\* Path(uri).name
PathName(uri) ==
    CASE uri = "/a/report.pdf" -> "report.pdf"
      [] uri = "/b/report.pdf" -> "report.pdf"
      [] uri = "/c/report.pdf" -> "report.pdf"
      [] uri = "/a/cert.pdf" -> "cert.pdf"
      [] uri = "/missing.pdf" -> "missing.pdf"

\* hashlib.sha256(data).hexdigest()
Sha256(data) ==
    CASE data = <<"a">> ->
           "ca978112ca1bbdcafac231b39a23dc4da786eff8147c4e72b9807785afee48bb"
      [] data = <<"b">> ->
           "3e23e8160039594a33894f6564e1b1348bbd7a0088d42c4acb73eeaed59c009d"
      [] data = <<"c", "c">> ->
           "355b1bbfc96725cdce8f4a2708fda310a80e6d13315aec4e5eed2a75fe8032ce"

\* source_path.exists() and source_path.is_file()
IsLocalFile(uri) == uri \in DOMAIN LocalFiles

\* the (evidence, category) pairs of one entity's evidence list
Categorized(evidence, category) ==
    [i \in DOMAIN evidence |-> [evidence |-> evidence[i], category |-> category]]

BimEvidence(bim) ==
    Categorized(bim.evidence, <<"bim", bim.project_name>>)
        \o Concat([i \in DOMAIN bim.elements |->
               Categorized(bim.elements[i].evidence,
                           <<"bim", bim.project_name, "elements">>)])

\* all_evidence of collect_project_evidence, in the order it is gathered
AllEvidence(project) ==
    Categorized(project.evidence_documents, <<"project">>)
        \o Concat([i \in DOMAIN project.epds |->
               Categorized(project.epds[i].evidence,
                           <<"epds", project.epds[i].epd_number>>)])
        \o Concat([i \in DOMAIN project.invoices |->
               Categorized(project.invoices[i].evidence,
                           <<"invoices", project.invoices[i].invoice_number>>)])
        \o Concat([i \in DOMAIN project.bim_models |->
               BimEvidence(project.bim_models[i])])
        \o Concat([i \in DOMAIN project.transport_logs |->
               Categorized(project.transport_logs[i].evidence,
                           <<"transport", project.transport_logs[i].shipment_id>>)])
        \o Concat([i \in DOMAIN project.waste_streams |->
               Categorized(project.waste_streams[i].evidence, <<"waste">>)])
        \o Concat([i \in DOMAIN project.meters |->
               Categorized(project.meters[i].evidence,
                           <<"meters", project.meters[i].meter_id>>)])

\* archive_path = f"evidence/{category}/{filename}", as its components
ArchivePath(evidence, category) ==
    <<"evidence">> \o category
        \o <<IF TruthyStr(evidence.filename) THEN evidence.filename[1]
             ELSE PathName(evidence.uri)>>

\* The manifest entry of one evidence document; None for a document that is
\* not a local file.
ProcessEvidence(evidence, category) ==
    IF ~IsLocalFile(evidence.uri) THEN None
    ELSE Some([evidence_type |-> evidence.type,
               original_uri |-> evidence.uri,
               archive_path |-> ArchivePath(evidence, category),
               size_bytes |-> Len(LocalFiles[evidence.uri]),
               sha256_hash |-> IF TruthyStr(evidence.hash) THEN evidence.hash[1]
                               ELSE Sha256(LocalFiles[evidence.uri])])

\* zipfile_handle.write(source_path, archive_path) for every processed
\* document: the members of the archive in the order they are written.
ArchivedFiles(all) ==
    Concat([i \in DOMAIN all |->
        IF ~IsLocalFile(all[i].evidence.uri) THEN <<>>
        ELSE <<[name |-> ArchivePath(all[i].evidence, all[i].category),
                data |-> LocalFiles[all[i].evidence.uri]]>>])

ManifestEntries(all) ==
    Concat([i \in DOMAIN all |-> ProcessEvidence(all[i].evidence, all[i].category)])

\* zf.read(name): a ZipFile indexes its members by name, so the member
\* written last under a name is the one that is read.
HasMember(archive, name) == \E i \in DOMAIN archive : archive[i].name = name

ZipRead(archive, name) ==
    LET last == CHOOSE i \in DOMAIN archive :
                    /\ archive[i].name = name
                    /\ \A j \in DOMAIN archive : archive[j].name = name => j <= i
    IN  archive[last].data

\* The errors verify_manifest reports for one manifest entry.
EntryErrors(archive, entry) ==
    IF ~HasMember(archive, entry.archive_path)
    THEN <<<<"Missing file in archive", entry.archive_path>>>>
    ELSE (IF Sha256(ZipRead(archive, entry.archive_path)) # entry.sha256_hash
          THEN <<<<"Hash mismatch", entry.archive_path>>>> ELSE <<>>)
         \o (IF Len(ZipRead(archive, entry.archive_path)) # entry.size_bytes
             THEN <<<<"Size mismatch", entry.archive_path>>>> ELSE <<>>)

\* verify_manifest: (is_valid, errors)
VerifyManifest(archive) ==
    IF ~HasMember(archive, <<"MANIFEST.json">>)
    THEN [is_valid |-> FALSE, errors |-> <<<<"Failed to read manifest">>>>]
    ELSE LET manifest == ZipRead(archive, <<"MANIFEST.json">>)
             errors == Concat([i \in DOMAIN manifest.entries |->
                           EntryErrors(archive, manifest.entries[i])])
         IN  [is_valid |-> errors = <<>>, errors |-> errors]

\* collect_project_evidence: the manifest it returns and the archive it writes
CollectProjectEvidence(project) ==
    LET entries == ManifestEntries(AllEvidence(project))
        manifest == [project_id |-> project.id,
                     entries |-> entries,
                     total_files |-> Len(entries),
                     total_size_bytes |->
                         SumSeq([i \in DOMAIN entries |-> entries[i].size_bytes])]
    IN  [manifest |-> manifest,
         archive |-> ArchivedFiles(AllEvidence(project))
                         \o <<[name |-> <<"MANIFEST.json">>, data |-> manifest],
                              [name |-> <<"README.txt">>, data |-> manifest.total_files]>>]

\* inputs: evidence documents, and projects holding them
EvidenceDocument(uri, filename, hash) ==
    [type |-> "epd", uri |-> uri, filename |-> filename, hash |-> hash]

EvidenceDocuments ==
    {EvidenceDocument("/a/report.pdf", None, None),
     EvidenceDocument("/a/report.pdf", None, Some("")),
     EvidenceDocument("/a/report.pdf", None, Some(Sha256(<<"a">>))),
     EvidenceDocument("/a/report.pdf", None, Some("abc123")),
     EvidenceDocument("/b/report.pdf", None, None),
     EvidenceDocument("/c/report.pdf", Some(""), None),
     EvidenceDocument("/a/cert.pdf", Some("report.pdf"), None),
     EvidenceDocument("/a/cert.pdf", None, Some(Sha256(<<"b">>))),
     EvidenceDocument("/missing.pdf", None, Some("abc123"))}

EvidenceLists ==
    UNION {[1..n -> EvidenceDocuments] : n \in 0..MaxEvidence}

EvidenceProject(documents, evidence) ==
    [id |-> "project-1",
     evidence_documents |-> documents,
     epds |-> <<[epd_number |-> "EPD-1", evidence |-> evidence]>>,
     invoices |-> <<>>, bim_models |-> <<>>, transport_logs |-> <<>>,
     waste_streams |-> <<>>, meters |-> <<>>]

\* one document under each kind of entity that carries evidence
FullProject(ev) ==
    [id |-> "project-2",
     evidence_documents |-> <<ev>>,
     epds |-> <<[epd_number |-> "EPD-1", evidence |-> <<ev>>]>>,
     invoices |-> <<[invoice_number |-> "INV-1", evidence |-> <<ev>>]>>,
     bim_models |-> <<[project_name |-> "Tower", evidence |-> <<ev>>,
                       elements |-> <<[evidence |-> <<ev>>], [evidence |-> <<ev>>]>>]>>,
     transport_logs |-> <<[shipment_id |-> "SHIP-1", evidence |-> <<ev>>]>>,
     waste_streams |-> <<[evidence |-> <<ev>>]>>,
     meters |-> <<[meter_id |-> "M-1", evidence |-> <<ev>>]>>]

EvidenceProjects ==
    {EvidenceProject(d, ev) : d \in {<<>>, <<EvidenceDocument("/a/cert.pdf", None, None)>>},
                              ev \in EvidenceLists}
        \cup {FullProject(ev) : ev \in EvidenceDocuments}

\* collector.collect_project_evidence(project, output_zip)
Collect ==
    /\ collector # <<>>
    /\ collector.pc = "new"
    /\ collector' = [collector EXCEPT
           !.pc = "collected",
           !.manifest = CollectProjectEvidence(collector.project).manifest,
           !.archive = CollectProjectEvidence(collector.project).archive]
    /\ UNCHANGED <<matcher, today, engineVars, context, proj, pc, ri, report,
                   exc, nextId>>

\* collector.verify_manifest(output_zip)
Verify ==
    /\ collector # <<>>
    /\ collector.pc = "collected"
    /\ collector' = [collector EXCEPT
           !.pc = "verified",
           !.verdict = VerifyManifest(collector.archive)]
    /\ UNCHANGED <<matcher, today, engineVars, context, proj, pc, ri, report,
                   exc, nextId>>

InitCollect ==
    /\ today = 0
    /\ Constructed(CatalogueDoc(CatalogueOrder, {}, {}))
    /\ proj = [e \in Evals |-> BaseProject]
    /\ pc = [e \in Evals |-> "idle"]
    /\ ri = [e \in Evals |-> 1]
    /\ report = [e \in Evals |-> <<>>]
    /\ exc = [e \in Evals |-> ""]
    /\ nextId = 1
    /\ matcher = <<>>
    /\ \E project \in EvidenceProjects :
           collector = [project |-> project, pc |-> "new", archive |-> <<>>,
                        manifest |-> None, verdict |-> None]

NextCollect == Collect \/ Verify

SpecCollect == InitCollect /\ [][NextCollect]_vars

\* the embodied-carbon check alone, on the projects at and around the
\* thresholds, with and without a floor area
NccCases ==
    {[doc |-> CatalogueDoc(<<"ncc_embodied_carbon">>, {}, {}), project |-> p] :
        p \in ProjectsNcc}

\* One handler at a time: an engine whose catalogue holds the rule of one check
\* (the whole catalogue for the plain project), and a project made for it.
InitChecks ==
    /\ today = 0
    /\ \E c \in EpdCases \cup TraceCases \cup LegCases \cup WasteCases
                      \cup InvoiceCases \cup ScopeCases \cup DuplicateCases
                      \cup LinkCases \cup NccCases
               \cup {[doc |-> d, project |-> BaseProject] : d \in Catalogues} :
          /\ Constructed(c.doc)
          /\ proj = [e \in Evals |-> c.project]
    /\ NoCalls

SpecChecks == InitChecks /\ [][Next]_vars

\* ------------------------------------------------------------------- claims

\* the findings of a list that carry rule_id
FindingsOf(findings, rule_id) == SelectSeq(findings, LAMBDA f : f.rule_id = rule_id)

\* findings with the generated identifier blanked
WithoutIds(findings) == [i \in DOMAIN findings |-> [findings[i] EXCEPT !.finding_id = 0]]

\* the summary fields of a report
SummaryOf(r) ==
    <<r.total_checks, r.passed_checks, r.failed_checks, r.critical_count, r.high_count,
      r.medium_count, r.low_count, r.compliant>>

\* call e has got past rule k of the catalogue
Processed(e, k) == pc[e] # "idle" /\ ri[e] > k

\* call e ran, so far, within the day it started in
SameDay(e) == pc[e] # "idle" /\ report[e].generated_at = today

\* the context evaluate_project sets before the loop
FreshContext(project, now) == [check_date |-> now, project |-> project.id]

NccId == "ncc_embodied_carbon"

\* C1: the report evaluate_project returns has total_checks equal to the length
\* of its findings list and to passed_checks + failed_checks, and compliant
\* equal to (critical_count = 0 and high_count = 0).
C1_SummaryConsistent ==
    \A e \in Evals : pc[e] = "returned" =>
        /\ report[e].total_checks = Len(report[e].findings)
        /\ report[e].total_checks = report[e].passed_checks + report[e].failed_checks
        /\ report[e].compliant
              = (report[e].critical_count = 0 /\ report[e].high_count = 0)

C1_Witness ==
    \E e \in Evals :
        /\ pc[e] = "returned"
        /\ report[e].passed_checks > 0
        /\ report[e].critical_count = 0
        /\ report[e].high_count > 0
        /\ ~report[e].compliant

\* the number of findings of r that failed with one of the severities
FailedCount(r, severities) ==
    Cardinality({i \in DOMAIN r.findings :
                    r.findings[i].passed = FALSE /\ r.findings[i].severity \in severities})

\* C2: after calculate_summary, critical_count, high_count and medium_count are
\* the numbers of failed findings of exactly that severity, low_count is the
\* number of failed findings of severity LOW or WARNING, a passed finding is in
\* no bucket, and a report whose failures are all MEDIUM, LOW or WARNING is
\* compliant.
C2_SeverityBuckets ==
    \A e \in Evals : pc[e] = "summed" =>
        /\ report[e].critical_count = FailedCount(report[e], {"CRITICAL"})
        /\ report[e].high_count = FailedCount(report[e], {"HIGH"})
        /\ report[e].medium_count = FailedCount(report[e], {"MEDIUM"})
        /\ report[e].low_count = FailedCount(report[e], {"LOW", "WARNING"})
        /\ report[e].critical_count + report[e].high_count + report[e].medium_count
              + report[e].low_count <= report[e].failed_checks
        /\ (\A i \in DOMAIN report[e].findings :
                report[e].findings[i].passed
                \/ report[e].findings[i].severity \in {"MEDIUM", "LOW", "WARNING"})
           => report[e].compliant

C2_Witness ==
    \E e \in Evals :
        /\ pc[e] = "summed"
        /\ \E i \in DOMAIN report[e].findings :
              report[e].findings[i].passed /\ report[e].findings[i].severity = "CRITICAL"
        /\ \E i \in DOMAIN report[e].findings :
              ~report[e].findings[i].passed /\ report[e].findings[i].severity = "WARNING"
        /\ report[e].critical_count = 0
        /\ report[e].low_count = 1
        /\ report[e].compliant

\* C3: two calls in sequence on one engine with the same project, run within
\* one day, return findings lists that agree position by position on every
\* field but finding_id, and equal summaries; and what a call returns is what
\* the rules yield from a fresh context, whatever the call before it left.
C3_Deterministic ==
    \A e1, e2 \in Evals :
        (e1 < e2 /\ pc[e1] = "returned" /\ pc[e2] = "returned" /\ SameDay(e1)
         /\ proj[e1] = proj[e2]) =>
            /\ Len(report[e1].findings) = Len(report[e2].findings)
            /\ WithoutIds(report[e1].findings) = WithoutIds(report[e2].findings)
            /\ SummaryOf(report[e1]) = SummaryOf(report[e2])
            /\ WithoutIds(report[e2].findings)
                  = EvalRules(proj[e2], rules, <<>>,
                              FreshContext(proj[e2], today), today).findings

C3_Witness ==
    /\ pc[1] = "returned" /\ pc[2] = "returned"
    /\ SameDay(1)
    /\ Len(report[2].findings) > 1
    /\ report[1].findings[1].finding_id # report[2].findings[1].finding_id
    /\ report[1].report_id # report[2].report_id
    /\ HasKey(context, "ncc_threshold")

\* C4: a disabled rule contributes no finding; an enabled rule without a
\* handler contributes exactly one finding, a failed WARNING on the project
\* with the rule's rule_id that says the rule is not implemented; the fallback
\* never ends the evaluation, which goes on with the rules after it.
C4_DisabledAndUnregistered ==
    \A e \in Evals : \A k \in DOMAIN rules :
        /\ (Processed(e, k) /\ ~RuleEnabled(rules[k])) =>
              FindingsOf(report[e].findings, rules[k].rule_id) = <<>>
        /\ (Processed(e, k) /\ RuleEnabled(rules[k]) /\ ~HasHandler(rules[k].rule_id)) =>
              /\ Len(FindingsOf(report[e].findings, rules[k].rule_id)) = 1
              /\ \A i \in DOMAIN report[e].findings :
                    report[e].findings[i].rule_id = rules[k].rule_id =>
                        /\ report[e].findings[i].severity = "WARNING"
                        /\ report[e].findings[i].passed = FALSE
                        /\ report[e].findings[i].entity_id = Some(proj[e].id)
                        /\ report[e].findings[i].entity_type = "project"
                        /\ report[e].findings[i].description
                              = <<(<<"Rule not yet implemented", rules[k].rule_id>>)>>
        /\ (pc[e] = "raised" /\ ri[e] = k) => HasHandler(rules[k].rule_id)
        /\ (pc[e] = "returned" /\ SameDay(e)) =>
              WithoutIds(report[e].findings)
                 = EvalRules(proj[e], rules, <<>>, FreshContext(proj[e], today),
                             today).findings

\* the fallback ran first, a disabled rule was skipped, and later rules reported
C4_Witness ==
    \E e \in Evals :
        /\ pc[e] = "returned"
        /\ rules[1].rule_id = UnregisteredId
        /\ report[e].findings[1].rule_id = UnregisteredId
        /\ report[e].findings[1].severity = "WARNING"
        /\ Len(report[e].findings) > 3
        /\ \E k \in DOMAIN rules : ~RuleEnabled(rules[k])

\* a registered per-entity rule with no entity of the project to report on
NothingToReport(project, rule_id) ==
    \/ rule_id = "epd_validity" /\ project.epds = <<>>
    \/ rule_id = "material_traceability" /\ BimElements(project) = <<>>
    \/ rule_id = "transport_verification" /\ TransportLegs(project) = <<>>
    \/ rule_id = "waste_circularity" /\ project.waste_streams = <<>>
    \/ rule_id = "temporal_validity" /\ project.invoices = <<>>
    \/ /\ rule_id = "evidence_linkage"
       /\ project.epds = <<>>
       /\ \A i \in DOMAIN InvoiceLines(project) :
             \/ ~TruthyStr(InvoiceLines(project)[i].line_item.epd_id)
             \/ FindEpd(project, InvoiceLines(project)[i].line_item.epd_id[1]) # None

\* C5 as stated: every enabled rule has at least one finding with its rule_id
\* in the returned report, empty collections included.
C5_TotalCoverage ==
    \A e \in Evals : pc[e] = "returned" =>
        \A k \in DOMAIN rules : RuleEnabled(rules[k]) =>
            FindingsOf(report[e].findings, rules[k].rule_id) # <<>>

\* C5: in the returned report an enabled rule has at least one finding with its
\* rule_id exactly when it is not a registered per-entity rule whose entities
\* (EPDs, elements, legs, waste streams, invoices, EPD references) are absent.
C5_CoverageUnlessNothingToReport ==
    \A e \in Evals : pc[e] = "returned" =>
        \A k \in DOMAIN rules : RuleEnabled(rules[k]) =>
            (FindingsOf(report[e].findings, rules[k].rule_id) # <<>>)
               = ~NothingToReport(proj[e], rules[k].rule_id)

\* enabled EPD validity over no EPDs left nothing, the project-level checks did
C5_Witness ==
    \E e \in Evals : \E k \in DOMAIN rules :
        /\ pc[e] = "returned"
        /\ RuleEnabled(rules[k]) /\ rules[k].rule_id = "epd_validity"
        /\ proj[e].epds = <<>>
        /\ FindingsOf(report[e].findings, "epd_validity") = <<>>
        /\ FindingsOf(report[e].findings, "double_counting") # <<>>
        /\ FindingsOf(report[e].findings, UnregisteredId) # <<>>

\* a mapping of the document that describes a rule without naming it
RuleWithoutId(item) ==
    item.isdict /\ ~HasKey(item.d, "rule_id") /\ HasKey(item.d, "name")

\* C6 as stated: a document that is not a list, or that holds a rule entry
\* without rule_id, ends construction with ConfigError and no engine; a loaded
\* engine has the document's first version, or "1.0.0".
C6_LoadRejectsMalformed ==
    /\ engine = "constructed" =>
          /\ doc.kind = "list"
          /\ \A i \in DOMAIN doc.items : ~RuleWithoutId(doc.items[i])
          /\ version = LoadedVersion(doc)
    /\ engine \notin {"none", "constructed"} => engine = "ConfigError"

\* C7 as stated: evaluate_project never raises.
C7_NeverRaises == \A e \in Evals : pc[e] # "raised"

\* the catalogue without the carbon-intensity rule
RulesWithout(rule_id) == SelectSeq(rules, LAMBDA r : r.rule_id # rule_id)

\* the findings of a list that do not carry rule_id
FindingsNotOf(findings, rule_id) == SelectSeq(findings, LAMBDA f : f.rule_id # rule_id)

\* C8: for a project without gross floor area the carbon-intensity check
\* leaves exactly one finding, a failed CRITICAL that names the missing area,
\* and does not end the evaluation; the other rules' findings, and the way the
\* call ends, are those of the catalogue without the carbon-intensity rule.
C8_MissingAreaNotFatal ==
    \A e \in Evals : \A k \in DOMAIN rules :
        (rules[k].rule_id = NccId /\ RuleEnabled(rules[k])
         /\ ~TruthyNum(proj[e].gross_floor_area_m2)) =>
            /\ Processed(e, k) =>
                  /\ Len(FindingsOf(report[e].findings, NccId)) = 1
                  /\ \A i \in DOMAIN report[e].findings :
                        report[e].findings[i].rule_id = NccId =>
                            /\ report[e].findings[i].severity = "CRITICAL"
                            /\ report[e].findings[i].passed = FALSE
                            /\ report[e].findings[i].description =
                                  <<(<<"Cannot calculate carbon intensity - missing gross floor area">>)>>
            /\ ~(pc[e] = "raised" /\ ri[e] = k)
            /\ (Finished(e) /\ SameDay(e)) =>
                  /\ WithoutIds(FindingsNotOf(report[e].findings, NccId))
                        = EvalRules(proj[e], RulesWithout(NccId), <<>>,
                                    FreshContext(proj[e], today), today).findings
                  /\ exc[e] = EvalRules(proj[e], RulesWithout(NccId), <<>>,
                                        FreshContext(proj[e], today), today).exc

\* no area: the check left its finding mid-catalogue and later rules reported
C8_Witness ==
    \E e \in Evals :
        /\ pc[e] = "returned"
        /\ proj[e].gross_floor_area_m2 = None
        /\ Len(FindingsOf(report[e].findings, NccId)) = 1
        /\ \E i, j \in DOMAIN report[e].findings :
              /\ i < j
              /\ report[e].findings[i].rule_id = NccId
              /\ report[e].findings[j].rule_id # NccId
        /\ Len(report[e].findings) > 5

\* the carbon-intensity finding of call e, once the rule has run with an area
NccJudged(e, k) ==
    /\ rules[k].rule_id = NccId /\ RuleEnabled(rules[k])
    /\ Processed(e, k)
    /\ TruthyNum(proj[e].gross_floor_area_m2)

\* C9 as stated: intensity exactly at the threshold of the project type (850
\* without an entry) gives a passed INFO finding; one unit above gives a failed
\* CRITICAL finding that says the threshold is exceeded.
C9_ThresholdBoundary ==
    \A e \in Evals : \A k \in DOMAIN rules : NccJudged(e, k) =>
        \A i \in DOMAIN report[e].findings : report[e].findings[i].rule_id = NccId =>
            /\ (CarbonIntensityPerM2(proj[e])[1][1]
                  = NccThreshold(proj[e], rules[k]) * CarbonIntensityPerM2(proj[e])[1][2])
               => (report[e].findings[i].passed /\ report[e].findings[i].severity = "INFO")
            /\ (CarbonIntensityPerM2(proj[e])[1][1]
                  = (NccThreshold(proj[e], rules[k]) + 1)
                       * CarbonIntensityPerM2(proj[e])[1][2])
               => /\ report[e].findings[i].passed = FALSE
                  /\ report[e].findings[i].severity = "CRITICAL"
                  /\ <<"EXCEEDS threshold">> \in Range(report[e].findings[i].description)

\* C10 as stated: with an area, the check passes exactly when intensity <=
\* threshold, the mandatory stages of every EPD being values (zero included).
C10_PassIffWithinThreshold ==
    \A e \in Evals : \A k \in DOMAIN rules : NccJudged(e, k) =>
        \A i \in DOMAIN report[e].findings : report[e].findings[i].rule_id = NccId =>
            report[e].findings[i].passed
               = DecLE(CarbonIntensityPerM2(proj[e])[1], NccThreshold(proj[e], rules[k]))

\* call e has run the enabled rule k, and k is the rule of the check rule_id
Checked(e, k, rule_id) ==
    rules[k].rule_id = rule_id /\ RuleEnabled(rules[k]) /\ Processed(e, k)

\* C11: the EPD-validity check leaves one finding per EPD, in EPD order; it is
\* passed (INFO) exactly when valid_from <= check date <= valid_until, the EPD
\* is verified unless it is not product-specific, it has a registration number
\* and its source is in the rule's list; failed is CRITICAL for a
\* product-specific EPD and WARNING otherwise.
C11_EpdValidity ==
    \A e \in Evals : \A k \in DOMAIN rules : Checked(e, k, "epd_validity") =>
        /\ Len(FindingsOf(report[e].findings, "epd_validity")) = Len(proj[e].epds)
        /\ \A i \in DOMAIN proj[e].epds :
              /\ FindingsOf(report[e].findings, "epd_validity")[i].entity_id
                    = Some(proj[e].epds[i].id)
              /\ FindingsOf(report[e].findings, "epd_validity")[i].passed
                    = (/\ proj[e].epds[i].valid_from <= report[e].generated_at
                       /\ report[e].generated_at <= proj[e].epds[i].valid_until
                       /\ (proj[e].epds[i].epd_type # "product-specific"
                           \/ proj[e].epds[i].is_verified)
                       /\ proj[e].epds[i].epd_number # ""
                       /\ proj[e].epds[i].source
                             \in Range(rules[k].conditions.all[5].value))
              /\ FindingsOf(report[e].findings, "epd_validity")[i].severity
                    = IF FindingsOf(report[e].findings, "epd_validity")[i].passed
                      THEN "INFO"
                      ELSE IF proj[e].epds[i].epd_type = "product-specific"
                      THEN "CRITICAL" ELSE "WARNING"

\* an EPD checked on the last day of its validity passed, beside a failed one
C11_Witness ==
    \E e \in Evals : \E k \in DOMAIN rules :
        /\ Checked(e, k, "epd_validity")
        /\ Len(proj[e].epds) = 2
        /\ proj[e].epds[1].valid_until = report[e].generated_at
        /\ FindingsOf(report[e].findings, "epd_validity")[1].passed
        /\ FindingsOf(report[e].findings, "epd_validity")[2].severity = "WARNING"

\* call e has run the enabled rule k of the check rule_id, to its end or not
Attempted(e, k, rule_id) ==
    /\ rules[k].rule_id = rule_id /\ RuleEnabled(rules[k])
    /\ Processed(e, k) \/ (pc[e] = "raised" /\ ri[e] = k)

\* the invoice lines an element's material name resolves to: those of the
\* same normalised name or, without one, those of the name the matcher picks
ResolvedLines(project, element) ==
    LET key == MaterialKey(InvoiceProductKeys(project),
                           NormalizeName(element.material_name)).key
    IN  {i \in DOMAIN InvoiceLines(project) :
            NormalizeName(InvoiceLines(project)[i].line_item.product_name) = key}

\* the line has an EPD or an emissions factor, its invoice a supplier tax ID,
\* and with the element's unit its quantity is within 10% of the element's
LineTraces(element, entry) ==
    /\ entry.line_item.epd_id # None \/ HasKey(entry.line_item.metadata, "emissions_factor")
    /\ TruthyStr(entry.invoice.supplier_abn)
    /\ entry.line_item.unit = element.unit =>
          /\ entry.line_item.quantity # 0
          /\ Abs(element.quantity - entry.line_item.quantity) * 10
                <= entry.line_item.quantity

\* C12 as stated: the traceability check leaves one finding per element,
\* passed exactly when the material name resolves to an invoice line that has
\* an EPD or emissions factor, a supplier tax ID and, with equal units, a
\* quantity within 10% (10% included); failed is HIGH; also with several lines
\* of one name.
C12_Traceability ==
    \A e \in Evals : \A k \in DOMAIN rules : Attempted(e, k, "material_traceability") =>
        /\ Len(FindingsOf(report[e].findings, "material_traceability"))
              = Len(BimElements(proj[e]))
        /\ \A i \in DOMAIN FindingsOf(report[e].findings, "material_traceability") :
              /\ FindingsOf(report[e].findings, "material_traceability")[i].passed
                    = \E j \in ResolvedLines(proj[e], BimElements(proj[e])[i]) :
                          LineTraces(BimElements(proj[e])[i], InvoiceLines(proj[e])[j])
              /\ FindingsOf(report[e].findings, "material_traceability")[i].severity
                    = IF FindingsOf(report[e].findings, "material_traceability")[i].passed
                      THEN "INFO" ELSE "HIGH"

\* C13: the transport check leaves one finding per transport leg; it is passed
\* exactly when the distance is at most 5000 km within a country (20000 km
\* between countries), a present emissions factor lies in [0.01, 2.0] (a
\* present 0 does not) and the load factor lies in [0.3, 1.0]; a failed finding
\* is MEDIUM and, when the distance is over the limit, says "exceeds".
C13_TransportPlausibility ==
    \A e \in Evals : \A k \in DOMAIN rules : Attempted(e, k, "transport_verification") =>
        /\ Len(FindingsOf(report[e].findings, "transport_verification"))
              = Len(TransportLegs(proj[e]))
        /\ \A i \in DOMAIN TransportLegs(proj[e]) :
              LET leg == TransportLegs(proj[e])[i].leg
                  f == FindingsOf(report[e].findings, "transport_verification")[i]
                  limit == IF leg.origin.country = leg.destination.country
                           THEN 5000 ELSE 20000
              IN  /\ f.entity_id = Some(leg.id)
                  /\ f.passed
                        = (/\ leg.distance_km <= limit
                           /\ leg.emissions_factor # None
                                 => (1 <= leg.emissions_factor[1]
                                     /\ leg.emissions_factor[1] <= 200)
                           /\ 30 <= leg.load_factor /\ leg.load_factor <= 100)
                  /\ ~f.passed => f.severity = "MEDIUM"
                  /\ leg.distance_km > limit
                        => \E j \in DOMAIN f.description :
                              f.description[j][1] = "Distance exceeds maximum"

\* the findings call e holds for the waste check, about streams and about the
\* project as a whole
StreamFindings(e) ==
    SelectSeq(FindingsOf(report[e].findings, "waste_circularity"),
              LAMBDA f : f.entity_type = "waste_stream")

DiversionFindings(e) ==
    SelectSeq(FindingsOf(report[e].findings, "waste_circularity"),
              LAMBDA f : f.entity_type = "project")

\* C14: the waste check leaves one per-stream finding for every waste stream; it
\* is passed exactly when the stream has a classification and a disposal
\* facility, a hazardous stream has a waste_receipt evidence item and a stream
\* with recycled content above 0 has a certification evidence item; a failed
\* per-stream finding is MEDIUM.
C14_WasteStreams ==
    \A e \in Evals : \A k \in DOMAIN rules : Attempted(e, k, "waste_circularity") =>
        /\ Len(StreamFindings(e)) = Len(proj[e].waste_streams)
        /\ \A i \in DOMAIN proj[e].waste_streams :
              LET ws == proj[e].waste_streams[i]
                  f == StreamFindings(e)[i]
              IN  /\ f.entity_id = Some(ws.id)
                  /\ f.passed
                        = (/\ ws.waste_type # ""
                           /\ ws.disposal_facility # ""
                           /\ ws.waste_type = "hazardous"
                                 => \E j \in DOMAIN ws.evidence :
                                       ws.evidence[j].type = "waste_receipt"
                           /\ (ws.recycled_content_pct # None
                               /\ ws.recycled_content_pct[1] > 0)
                                 => \E j \in DOMAIN ws.evidence :
                                       ws.evidence[j].type = "certification")
                  /\ ~f.passed => f.severity = "MEDIUM"

\* a hazardous stream with a recycled content claim passed on a receipt and a
\* certificate
C14_Witness ==
    \E e \in Evals : \E k \in DOMAIN rules :
        /\ Attempted(e, k, "waste_circularity")
        /\ Len(proj[e].waste_streams) = 1
        /\ proj[e].waste_streams[1].waste_type = "hazardous"
        /\ proj[e].waste_streams[1].recycled_content_pct = Some(1)
        /\ Len(StreamFindings(e)) = 1
        /\ StreamFindings(e)[1].passed

\* C15: the waste check leaves a project-level diversion finding exactly when
\* the total waste mass, in kg with tonnes taken 1000-fold, is above 0, and
\* never raises for a zero total; the finding is passed exactly when the mass
\* of recycled and reused streams is at least 70% of the total (70% included),
\* and a failed one is MEDIUM.
C15_DiversionRate ==
    \A e \in Evals : \A k \in DOMAIN rules : Attempted(e, k, "waste_circularity") =>
        LET kg(ws) == IF ws.unit = "tonne" THEN 1000 * ws.quantity ELSE ws.quantity
            total == SumSeq([i \in DOMAIN proj[e].waste_streams |->
                                kg(proj[e].waste_streams[i])])
            diverted == SumSeq([i \in DOMAIN proj[e].waste_streams |->
                                   IF proj[e].waste_streams[i].waste_type
                                         \in {"recycled", "reused"}
                                   THEN kg(proj[e].waste_streams[i]) ELSE 0])
        IN  /\ Processed(e, k)
            /\ Len(DiversionFindings(e)) = IF total > 0 THEN 1 ELSE 0
            /\ total > 0 =>
                  /\ DiversionFindings(e)[1].passed = (10 * diverted >= 7 * total)
                  /\ ~DiversionFindings(e)[1].passed
                        => DiversionFindings(e)[1].severity = "MEDIUM"

\* 7 tonnes recycled beside 3 tonnes to landfill passed at exactly 70%
C15_Witness ==
    \E e \in Evals : \E k \in DOMAIN rules :
        /\ Attempted(e, k, "waste_circularity")
        /\ Len(proj[e].waste_streams) = 2
        /\ proj[e].waste_streams[1].waste_type = "recycled"
        /\ proj[e].waste_streams[1].quantity = 7
        /\ proj[e].waste_streams[2].quantity = 3
        /\ Len(DiversionFindings(e)) = 1
        /\ DiversionFindings(e)[1].passed

\* C16: the data-quality check leaves exactly one finding, about the project;
\* with N > 0 invoices of which E carry evidence it is passed exactly when
\* E / N >= 80% (80% included); with no invoice the check does not raise and
\* its one finding is failed; a failed finding is HIGH.
C16_DataQuality ==
    \A e \in Evals : \A k \in DOMAIN rules : Attempted(e, k, "data_quality") =>
        LET N == Len(proj[e].invoices)
            E == Cardinality({i \in DOMAIN proj[e].invoices :
                                 Len(proj[e].invoices[i].evidence) >= 1})
            fs == FindingsOf(report[e].findings, "data_quality")
        IN  /\ Processed(e, k)
            /\ Len(fs) = 1
            /\ fs[1].entity_type = "project"
            /\ fs[1].passed = (N > 0 /\ 5 * E >= 4 * N)
            /\ ~fs[1].passed => fs[1].severity = "HIGH"
            /\ N = 0 => fs[1].metadata.primary_data_count = 0

\* four of five invoices with evidence passed, at exactly 80%
C16_Witness ==
    \E e \in Evals : \E k \in DOMAIN rules :
        /\ Attempted(e, k, "data_quality")
        /\ Len(proj[e].invoices) = 5
        /\ Cardinality({i \in 1..5 : proj[e].invoices[i].evidence # <<>>}) = 4
        /\ FindingsOf(report[e].findings, "data_quality")[1].passed

\* the findings the step of call e added to its report
Added(e) ==
    SubSeq(report'[e].findings, Len(report[e].findings) + 1, Len(report'[e].findings))

C18_ScopeBoundary ==
    \A e \in Evals : \A k \in DOMAIN rules : Attempted(e, k, "scope_boundary") =>
        LET fs == FindingsOf(report[e].findings, "scope_boundary")
            early == {i \in DOMAIN proj[e].meters :
                        /\ proj[e].end_date # None
                        /\ proj[e].meters[i].start_date < proj[e].end_date[1]}
            violations == (IF Len(proj[e].epds) = 0 THEN 1 ELSE 0)
                          + (IF Len(proj[e].transport_logs) = 0 THEN 1 ELSE 0)
                          + Cardinality(early)
        IN  /\ Len(fs) = 1
            /\ fs[1].entity_type = "project"
            /\ fs[1].passed = (violations = 0)
            /\ ~fs[1].passed =>
                  /\ fs[1].severity = "HIGH"
                  /\ Len(fs[1].description) = 1 + violations

\* the references of a project's elements and of its invoice lines that carry
\* a normalised name
ElementRefs(project, name) ==
    {<<"BIM", BimElements(project)[i].id>> :
        i \in {j \in DOMAIN BimElements(project) :
                  NormalizeName(BimElements(project)[j].material_name) = name}}

LineRefs(project, name) ==
    {<<"Invoice", InvoiceLines(project)[i].invoice.invoice_number,
       InvoiceLines(project)[i].line_item.line_number>> :
        i \in {j \in DOMAIN InvoiceLines(project) :
                  NormalizeName(InvoiceLines(project)[j].line_item.product_name) = name}}

MaterialNames(project) ==
    {NormalizeName(BimElements(project)[i].material_name) :
        i \in DOMAIN BimElements(project)}
    \cup {NormalizeName(InvoiceLines(project)[i].line_item.product_name) :
            i \in DOMAIN InvoiceLines(project)}

\* the names both an element and an invoice line carry
CrossNames(project) ==
    {name \in MaterialNames(project) :
        ElementRefs(project, name) # {} /\ LineRefs(project, name) # {}}

\* the failed findings call e holds for the double-counting check, as indices
DuplicateReports(e) ==
    {i \in DOMAIN FindingsOf(report[e].findings, "double_counting") :
        ~FindingsOf(report[e].findings, "double_counting")[i].passed}

\* C19: the double-counting check reports a normalised material name as a
\* duplicate exactly when an element and an invoice line both carry it; a name
\* repeated among elements only, or among invoice lines only, is not reported.
C19_DuplicateIffBothSources ==
    \A e \in Evals : \A k \in DOMAIN rules : Attempted(e, k, "double_counting") =>
        {FindingsOf(report[e].findings, "double_counting")[i].metadata.material :
            i \in DuplicateReports(e)} = CrossNames(proj[e])

\* C20: the double-counting check leaves, for each name that is a duplicate, one
\* finding, CRITICAL and failed, whose description and metadata name every
\* reference of the name; without a duplicate it leaves one finding, INFO and
\* passed; it never leaves both kinds and never leaves none.
C20_OneFindingPerGroup ==
    \A e \in Evals : \A k \in DOMAIN rules : Attempted(e, k, "double_counting") =>
        LET fs == FindingsOf(report[e].findings, "double_counting")
        IN  /\ Len(fs) >= 1
            /\ Cardinality(DuplicateReports(e)) = Cardinality(CrossNames(proj[e]))
            /\ \A name \in CrossNames(proj[e]) :
                  \E i \in DuplicateReports(e) :
                     /\ fs[i].severity = "CRITICAL"
                     /\ fs[i].metadata.material = name
                     /\ Range(fs[i].metadata.references)
                           = ElementRefs(proj[e], name) \cup LineRefs(proj[e], name)
                     /\ Range(fs[i].metadata.references) \subseteq Range(fs[i].description)
            /\ CrossNames(proj[e]) = {} =>
                  Len(fs) = 1 /\ fs[1].passed /\ fs[1].severity = "INFO"
            /\ CrossNames(proj[e]) # {} => DuplicateReports(e) = DOMAIN fs

\* the findings call e holds for the evidence-linkage check, about EPDs and
\* about invoices
EpdLinkFindings(e) ==
    SelectSeq(FindingsOf(report[e].findings, "evidence_linkage"),
              LAMBDA f : f.entity_type = "epd")

InvoiceLinkFindings(e) ==
    SelectSeq(FindingsOf(report[e].findings, "evidence_linkage"),
              LAMBDA f : f.entity_type = "invoice")

\* the evidence items of an EPD without a content hash
Unhashed(epd) ==
    {i \in DOMAIN epd.evidence : epd.evidence[i].hash \in {None, Some("")}}

\* how many parts of a description begin with a phrase
Mentions(description, phrase) ==
    Cardinality({i \in DOMAIN description : description[i][1] = phrase})

\* C21: the evidence-linkage check leaves one finding per EPD; it is passed
\* exactly when the EPD has evidence and every item of it has a non-empty
\* hash; with M > 0 items lacking a hash the finding is failed, CRITICAL, and
\* its description holds M missing-hash issues; with no evidence it is failed,
\* CRITICAL, and its description says that no evidence is attached.
C21_EvidenceHashes ==
    \A e \in Evals : \A k \in DOMAIN rules : Attempted(e, k, "evidence_linkage") =>
        /\ Len(EpdLinkFindings(e)) = Len(proj[e].epds)
        /\ \A i \in DOMAIN proj[e].epds :
              LET epd == proj[e].epds[i]
                  f == EpdLinkFindings(e)[i]
                  M == Cardinality(Unhashed(epd))
              IN  /\ f.entity_id = Some(epd.id)
                  /\ f.passed = (Len(epd.evidence) >= 1 /\ M = 0)
                  /\ M > 0 =>
                        /\ f.severity = "CRITICAL"
                        /\ Mentions(f.description, "Evidence missing SHA-256 hash") = M
                  /\ Len(epd.evidence) = 0 =>
                        /\ f.severity = "CRITICAL"
                        /\ Mentions(f.description, "No evidence documents attached") = 1

\* an EPD with two evidence items, neither hashed, failed beside a passed one
C21_Witness ==
    \E e \in Evals : \E k \in DOMAIN rules :
        /\ Attempted(e, k, "evidence_linkage")
        /\ Len(proj[e].epds) = 2
        /\ Cardinality(Unhashed(proj[e].epds[1])) = 2
        /\ Len(EpdLinkFindings(e)) = 2
        /\ ~EpdLinkFindings(e)[1].passed
        /\ EpdLinkFindings(e)[2].passed

\* the invoice lines whose EPD reference matches no EPD of the project
Dangling(project) ==
    SelectSeq(InvoiceLines(project),
              LAMBDA ln : /\ ln.line_item.epd_id # None
                          /\ \A x \in DOMAIN project.epds :
                                Some(project.epds[x].id) # ln.line_item.epd_id)

\* C22: the evidence-linkage check never raises and leaves, for every invoice
\* line whose EPD reference matches no EPD of the project, one finding, failed
\* and HIGH, on the line's invoice, and none for any other line; its findings
\* number the EPDs plus the dangling lines.
C22_DanglingReferences ==
    \A e \in Evals : \A k \in DOMAIN rules : Attempted(e, k, "evidence_linkage") =>
        /\ Processed(e, k)
        /\ Len(InvoiceLinkFindings(e)) = Len(Dangling(proj[e]))
        /\ \A i \in DOMAIN Dangling(proj[e]) :
              /\ InvoiceLinkFindings(e)[i].entity_id = Some(Dangling(proj[e])[i].invoice.id)
              /\ ~InvoiceLinkFindings(e)[i].passed
              /\ InvoiceLinkFindings(e)[i].severity = "HIGH"
        /\ Len(FindingsOf(report[e].findings, "evidence_linkage"))
              = Len(proj[e].epds) + Len(Dangling(proj[e]))

\* an invoice whose first line links an EPD of the project and whose second
\* line links a missing one got one finding beside the EPD's
C22_Witness ==
    \E e \in Evals : \E k \in DOMAIN rules :
        /\ Attempted(e, k, "evidence_linkage")
        /\ Len(proj[e].epds) = 1
        /\ Len(proj[e].invoices) = 1
        /\ Len(proj[e].invoices[1].line_items) = 2
        /\ proj[e].invoices[1].line_items[1].epd_id = Some("epd-1")
        /\ proj[e].invoices[1].line_items[2].epd_id = Some("epd-9")
        /\ Len(FindingsOf(report[e].findings, "evidence_linkage")) = 2

\* the ratio _fuzzy_match compares for candidate i of the call
MatchRatio(i) == Ratio(Lower(matcher.query), Lower(matcher.candidates[i]))

\* the candidates of the call that reach its threshold
Reaching == {i \in DOMAIN matcher.candidates : FracGE(MatchRatio(i), matcher.threshold)}

\* the first of the candidates of greatest ratio
FirstBest ==
    CHOOSE i \in DOMAIN matcher.candidates :
        /\ \A j \in DOMAIN matcher.candidates : FracGE(MatchRatio(i), MatchRatio(j))
        /\ \A j \in 1..(i - 1) : FracGT(MatchRatio(i), MatchRatio(j))

\* C23: _fuzzy_match returns a candidate only if its ratio reaches the
\* threshold and is the greatest of all candidates, the first of those that
\* share the greatest ratio; it returns none when no candidate reaches the
\* threshold; a candidate whose ratio equals the threshold is accepted.
C23_FuzzyMatchBest ==
    (matcher # <<>> /\ matcher.called) =>
        /\ Reaching = {} => matcher.result = None
        /\ Reaching # {} => matcher.result = Some(matcher.candidates[FirstBest])

\* C24: no step of evaluate_project, whatever rules are enabled, changes the
\* project it was given or any entity in it, nor the engine's rule
\* descriptors, global settings and version.
C24_InputsUnchanged ==
    [][(\E e \in Evals : Evaluate(e)) =>
          /\ proj' = proj
          /\ rules' = rules
          /\ global_settings' = global_settings
          /\ version' = version]_vars

\* a call returned several findings, one of them failed, after its handlers
\* wrote to the engine's context
C24_Witness ==
    \E e \in Evals :
        /\ pc[e] = "returned"
        /\ Len(report[e].findings) > 2
        /\ report[e].failed_checks > 0
        /\ "ncc_threshold" \in DOMAIN context
        /\ \E k \in DOMAIN rules : ~RuleEnabled(rules[k])

\* C25: when two calls on one engine interleave, the EPD-validity check of
\* each call reads the date fixed at the start of that same call, so its
\* findings are those the check yields from that call's own fresh context.
C25_OwnContext ==
    \A e \in Evals : \A k \in DOMAIN rules : Checked(e, k, "epd_validity") =>
        WithoutIds(FindingsOf(report[e].findings, "epd_validity"))
           = CheckEpdValidity(proj[e], rules[k],
                              FreshContext(proj[e], report[e].generated_at),
                              report[e].generated_at).findings

\* C26: in a report evaluate_project returns for a catalogue of distinct rule
\* identifiers, no two findings share both rule_id and entity_id, also for
\* projects with several duplicate material groups and invoices with several
\* dangling EPD references.
C26_OncePerRuleAndEntity ==
    \A e \in Evals :
        (/\ pc[e] = "returned"
         /\ \A k1, k2 \in DOMAIN rules : rules[k1].rule_id = rules[k2].rule_id => k1 = k2) =>
            \A i, j \in DOMAIN report[e].findings :
                (/\ report[e].findings[i].rule_id = report[e].findings[j].rule_id
                 /\ report[e].findings[i].entity_id = report[e].findings[j].entity_id)
                   => i = j

\* C27: after calculate_summary has run on a report, once or again, the summary
\* fields are those it computes from the findings list on a report of default
\* summary fields, whatever the fields held before the call.
C27_SummaryOfFindingsOnly ==
    \A e \in Evals : pc[e] \in {"summed", "summed again"} =>
        SummaryOf(report[e])
           = SummaryOf(CalculateSummary([NewReport(BaseProject, version, e, today) EXCEPT
                                            !.findings = report[e].findings]))

\* a report that held stale counters and a failed finding, summarised twice
C27_Witness ==
    \E e, o \in Evals :
        /\ pc[e] = "summed again"
        /\ pc[o] = "filled"
        /\ report[o].total_checks = 3
        /\ report[e].failed_checks = 1
        /\ report[e].total_checks = 2

\* C28: every archive written by collect_project_evidence passes
\* verify_manifest with (True, no errors): every manifest entry's archive path
\* is in the archive and its recorded SHA-256 hash and size are those of the
\* archived bytes, also for documents that carry a hash before collection and
\* for two documents that map to the same archive path.
C28_CollectThenVerify ==
    (collector # <<>> /\ collector.pc = "verified")
        => /\ collector.verdict.is_valid
           /\ collector.verdict.errors = <<>>

\* the report of call e went through one step of its lifecycle as lines
\* 174-206 order it
ReportStep(e) ==
    /\ (pc[e] = "idle" /\ pc'[e] # "idle")
          => /\ pc'[e] = "rules"
             /\ report'[e].findings = <<>>
             /\ SummaryOf(report'[e]) = <<0, 0, 0, 0, 0, 0, 0, FALSE>>
    /\ (pc[e] = "rules" /\ pc'[e] = "rules")
          => /\ SubSeq(report'[e].findings, 1, Len(report[e].findings))
                    = report[e].findings
             /\ SummaryOf(report'[e]) = SummaryOf(report[e])
             /\ report'[e] # report[e]
                    => /\ AtRule(e) /\ RuleEnabled(CurRule(e))
                       /\ ri'[e] = ri[e] + 1
                       /\ WithoutIds(Added(e))
                            = RunHandler(proj[e], CurRule(e), context, today).findings
    /\ (pc[e] = "rules" /\ pc'[e] = "returned")
          => /\ ri[e] > Len(rules)
             /\ report'[e].findings = report[e].findings
             /\ SummaryOf(report[e]) = <<0, 0, 0, 0, 0, 0, 0, FALSE>>
             /\ report'[e] = CalculateSummary(report[e])
    /\ pc[e] = "returned" => (pc'[e] = "returned" /\ report'[e] = report[e])

\* C29: within one evaluate_project call the report starts with an empty
\* findings list, every enabled rule in catalogue order appends its findings
\* behind those already there, in the order its handler produced them,
\* calculate_summary runs once, after the last rule, and the report is not
\* touched between that summary and the return, nor after it.
C29_ReportLifecycle == [][\A e \in Evals : ReportStep(e)]_vars

C29_Witness ==
    \E e \in Evals :
        /\ pc[e] = "returned"
        /\ \E k \in DOMAIN rules : ~RuleEnabled(rules[k])
        /\ \E i, j \in DOMAIN report[e].findings :
              /\ i + 1 < j
              /\ report[e].findings[i].rule_id = report[e].findings[i + 1].rule_id
              /\ report[e].findings[i].entity_id # report[e].findings[i + 1].entity_id
              /\ report[e].findings[i].rule_id # report[e].findings[j].rule_id
        /\ report[e].total_checks = Len(report[e].findings)

\* C30: in every report of evaluate_project every finding, whether of one of
\* the ten check handlers or of the fallback handler, is passed exactly when
\* its severity is INFO; so in a returned report failed_checks is the sum of
\* critical_count, high_count, medium_count and low_count.
C30_PassedIffInfo ==
    \A e \in Evals :
        /\ pc[e] \in {"rules", "returned"}
              => \A i \in DOMAIN report[e].findings :
                     report[e].findings[i].passed
                        <=> report[e].findings[i].severity = "INFO"
        /\ pc[e] = "returned"
              => report[e].failed_checks
                    = report[e].critical_count + report[e].high_count
                        + report[e].medium_count + report[e].low_count

C30_Witness ==
    \E e \in Evals :
        /\ pc[e] = "returned"
        /\ \E i, j \in DOMAIN report[e].findings :
              /\ report[e].findings[i].passed
              /\ ~report[e].findings[j].passed
              /\ report[e].findings[j].severity = "WARNING"
        /\ report[e].low_count > 0
        /\ report[e].failed_checks > report[e].low_count

=========================================================================
